---- MODULE Spec2Model ----
(***************************************************************************)
(* A model of test_analyzer: the file role classifier, the per-commit and  *)
(* per-PR diff folding, and the time-series aggregation layer              *)
(* (base/commits.py, github_analysis.py, analysis.py, base/ast_metrics.py).*)
(*                                                                         *)
(* Python strings are sequences of characters (one-character TLA+ strings  *)
(* for paths, decimal digits and '-' as character codes for period keys,   *)
(* so that keys can be ordered as Python orders them).  Python dicts are   *)
(* functions; a datetime is a record [year, month, day, hour, minute,      *)
(* second, microsecond].                                                   *)
(***************************************************************************)
EXTENDS Integers, Sequences, FiniteSets, TLC

VARIABLES
    raw_file_stats,   \* input of aggregate_snapshots_*: list of {date, prod_files, test_files}
    file_snapshots,   \* its return value
    granularity,      \* which aggregation produced file_snapshots ("none" before any call)
    raw_stats,        \* input of aggregate_stats_*: list of {date, metric: value, ...}
    agg_result,       \* its outcome: [raised |-> ValueError raised?, value |-> rows returned]
    agg_granularity,  \* which aggregation produced agg_result ("none" before any call)
    rel_path,         \* a file of the repository: its repository-relative path
    repo_path,        \* the directory the repository is scanned from
    component,        \* the component that classified the file last ("none" before any)
    path,             \* the path string that component handed to its predicate
    as_test,          \* its test-file verdict: "yes", "no", or "n/a" when it has none
    as_prod,          \* its production-file verdict: "yes", "no", or "n/a"
    commits,          \* repo.iter_commits(): list of [date, files: path -> {insertions, deletions}]
    prs,              \* the pull requests fetched: list of [closed_at, merge_commit_sha, files]
    issues,           \* the issues fetched: a list, of which the result keeps the length
    report_granularity,  \* the granularity argument of analyze_tests_github
    raw_commits,      \* commit_diff_stats(path)
    raw_pr_stats,     \* pr_diff_stats(prs)
    commit_stats,     \* the "commit_stats" series of the result
    pr_stats,         \* the "pr_stats" series of the result
    pc,               \* how far analyze_tests_github has run
    github_url,       \* the argument of parse_github_url
    parsed,           \* its outcome: [called, raised (ValueError), owner, repo_name]
    git_log,          \* the commits of HEAD, oldest first: [committed_date, files]
    delay_result,     \* what compute_test_delay returned
    first_seen,       \* its two dicts: [prod_dates, test_dates], each a list of [path, date]
    walked,           \* how many commits its first loop has visited
    local_zone,       \* the time zone of the process: [changes_at, before, after]
    worktree,         \* the files under repo_path: [rel, state, tree]
    scan_root,        \* the repo_path argument of the analyzers that walk the tree
    analyzer,         \* which analyzer ran last
    outcome,          \* what it returned: [raised, counts]
    clone_env,        \* what a run of analyze_tests_github on a URL meets: [branch_exists, removable, fault]
    clone_pc,         \* where that run stands: "idle", "clone_from", "checkout", "try", "exited"
    tmp_dir,          \* whether the directory made by tempfile.mkdtemp() is on disk
    try_step,         \* the statement of the try block about to run (0 outside the block)
    cleanup_calls,    \* how many times cleanup_repo(path) has been called
    propagated        \* the exception that left analyze_tests_github ("none" when none)

snapVars == <<raw_file_stats, file_snapshots, granularity>>
addVars == <<raw_stats, agg_result, agg_granularity>>
roleVars == <<rel_path, repo_path, component, path, as_test, as_prod>>
reportVars ==
    <<commits, prs, issues, report_granularity, raw_commits, raw_pr_stats, commit_stats,
      pr_stats, pc>>
urlVars == <<github_url, parsed>>
delayVars == <<git_log, delay_result, first_seen, walked, local_zone>>
scanVars == <<worktree, scan_root, analyzer, outcome>>
cloneVars == <<clone_env, clone_pc, tmp_dir, try_step, cleanup_calls, propagated>>
baseVars == <<snapVars, addVars, roleVars, reportVars>>
moreVars == <<urlVars, delayVars, scanVars, cloneVars>>
vars == <<snapVars, addVars, roleVars, reportVars, moreVars>>

SnapIdle == raw_file_stats = <<>> /\ file_snapshots = <<>> /\ granularity = "none"
AddIdle ==
    /\ raw_stats = <<>>
    /\ agg_result = [raised |-> FALSE, value |-> <<>>]
    /\ agg_granularity = "none"
RoleIdle ==
    /\ rel_path = <<>> /\ repo_path = <<>> /\ component = "none"
    /\ path = <<>> /\ as_test = "n/a" /\ as_prod = "n/a"
ReportIdle ==
    /\ commits = <<>> /\ prs = <<>> /\ issues = <<>> /\ report_granularity = "yearly"
    /\ raw_commits = <<>> /\ raw_pr_stats = <<>>
    /\ commit_stats = <<>> /\ pr_stats = <<>> /\ pc = "idle"
UrlIdle ==
    /\ github_url = <<>>
    /\ parsed = [called |-> FALSE, raised |-> FALSE, owner |-> <<>>, repo_name |-> <<>>]
DelayIdle ==
    /\ git_log = <<>>
    /\ delay_result = [called |-> FALSE, avg_delay_days |-> <<0, 1>>, delay_count |-> 0]
    /\ first_seen = [prod_dates |-> <<>>, test_dates |-> <<>>]
    /\ walked = 0
    /\ local_zone = [changes_at |-> 0, before |-> 0, after |-> 0]
ScanIdle ==
    /\ worktree = <<>> /\ scan_root = <<>> /\ analyzer = "none"
    /\ outcome = [raised |-> "none", counts |-> <<>>]
CloneIdle ==
    /\ clone_env = [branch_exists |-> TRUE, removable |-> TRUE,
                    fault |-> [at |-> "nowhere", error |-> "none"]]
    /\ clone_pc = "idle" /\ tmp_dir = FALSE /\ try_step = 0
    /\ cleanup_calls = 0 /\ propagated = "none"
BaseIdle == SnapIdle /\ AddIdle /\ RoleIdle /\ ReportIdle
MoreIdle == UrlIdle /\ DelayIdle /\ ScanIdle /\ CloneIdle

----------------------------------------------------------------------------
\* Bounds of the model

MaxRecs == 3

Years == {2020, 2021, 2022}
Months == {1, 3}
Days == {1, 2}
Hours == {8, 10}
FileCounts == {<<1, 0>>, <<2, 1>>}

\* commit dates: 08:00 on the first of a month, and in January 2020 also 10:00
\* on the first and 08:00 on the second
Dates ==
    {d \in [year : Years, month : Months, day : Days, hour : Hours,
            minute : {0}, second : {0}, microsecond : {0}] :
        /\ ~(d.year = 2022 /\ d.month = 3)
        /\ \/ d.day = 1 /\ d.hour = 8
           \/ d.year = 2020 /\ d.month = 1 /\ (d.day = 1 \/ d.hour = 8)}

RECURSIVE SeqsUpTo(_, _)
SeqsUpTo(S, n) ==
    IF n = 0 THEN {<<>>}
    ELSE LET shorter == SeqsUpTo(S, n - 1)
         IN  shorter \cup {Append(s, x) : s \in {t \in shorter : Len(t) = n - 1}, x \in S}

----------------------------------------------------------------------------
\* datetime: ordering, construction, formatting

\* the fields datetime compares, most significant first
DateFields == <<"year", "month", "day", "hour", "minute", "second", "microsecond">>

\* datetime.__lt__ / __le__: lexicographic on (year, month, day, hour, minute,
\* second, microsecond)
DateLT(a, b) ==
    \E i \in 1..Len(DateFields) :
        /\ a[DateFields[i]] < b[DateFields[i]]
        /\ \A j \in 1..(i - 1) : a[DateFields[j]] = b[DateFields[j]]

DateLE(a, b) == a = b \/ DateLT(a, b)

\* datetime(y, m, 1): midnight
MonthStart(y, m) ==
    [year |-> y, month |-> m, day |-> 1,
     hour |-> 0, minute |-> 0, second |-> 0, microsecond |-> 0]

\* the character code of a decimal digit ('0' is 48; '-' is 45)
Digit(k) == 48 + k

\* %Y: the decimal digits of the year, without padding (a year below 1000 has
\* fewer than four)
RECURSIVE FmtYear(_)
FmtYear(y) ==
    IF y < 10 THEN <<Digit(y)>> ELSE FmtYear(y \div 10) \o <<Digit(y % 10)>>

\* %m: the month as two decimal digits
FmtMonth(m) == <<Digit(m \div 10), Digit(m % 10)>>

\* date.strftime(fmt) for the two formats the aggregators use
strftime(d, fmt) ==
    IF fmt = "%Y-%m" THEN FmtYear(d.year) \o <<45>> \o FmtMonth(d.month)
    ELSE FmtYear(d.year)

\* str(y) for a non-negative int: decimal digits, no padding
RECURSIVE str(_)
str(n) == IF n < 10 THEN <<Digit(n)>> ELSE str(n \div 10) \o <<Digit(n % 10)>>

\* Python's < on str: lexicographic on the characters
RECURSIVE StrLT(_, _)
StrLT(a, b) ==
    IF b = <<>> THEN FALSE
    ELSE IF a = <<>> THEN TRUE
    ELSE IF Head(a) # Head(b) THEN Head(a) < Head(b)
    ELSE StrLT(Tail(a), Tail(b))

\* dict.get(key, default)
Get(d, k, default) == IF k \in DOMAIN d THEN d[k] ELSE default

----------------------------------------------------------------------------
\* sorted(raw_stats, key=lambda x: x['date']): a stable sort

RECURSIVE InsertByDate(_, _)
InsertByDate(items, x) ==
    IF items = <<>> THEN <<x>>
    ELSE IF DateLE(Head(items).date, x.date)
         THEN <<Head(items)>> \o InsertByDate(Tail(items), x)
         ELSE <<x>> \o items

RECURSIVE SortFrom(_, _, _)
SortFrom(raw, i, acc) ==
    IF i > Len(raw) THEN acc ELSE SortFrom(raw, i + 1, InsertByDate(acc, raw[i]))

sorted_unsorted(raw) == raw

sorted_by_date(raw) == SortFrom(raw, 1, <<>>)

----------------------------------------------------------------------------
\* aggregate_snapshots_monthly / aggregate_snapshots_yearly

NextMonth_skipDecember(cur) ==
    IF cur.month >= 11 THEN MonthStart(cur.year + 1, 1)
    ELSE MonthStart(cur.year, cur.month + 1)

\* the step of the period loop: December rolls over to January of the next year
NextMonth(cur) ==
    IF cur.month = 12 THEN MonthStart(cur.year + 1, 1)
    ELSE MonthStart(cur.year, cur.month + 1)

\* while cur <= end: periods.append(cur.strftime("%Y-%m")); cur = next month
RECURSIVE MonthPeriods(_, _)
MonthPeriods(cur, end) ==
    IF DateLE(cur, end)
    THEN <<strftime(cur, "%Y-%m")>> \o MonthPeriods(NextMonth(cur), end)
    ELSE <<>>

\* [str(y) for y in range(first, last + 1)]
RECURSIVE YearPeriods(_, _)
YearPeriods(y, last) ==
    IF y <= last THEN <<str(y)>> \o YearPeriods(y + 1, last) ELSE <<>>

\* last_snapshot[period] = item
DictSet(d, k, v) == [x \in (DOMAIN d) \cup {k} |-> IF x = k THEN v ELSE d[x]]

\* while idx < len(items) and items[idx]['date'].strftime(fmt) == period:
\*     last_snapshot[period] = items[idx]; idx += 1
\* (idx is 1-based here)
RECURSIVE Advance(_, _, _, _, _)
Advance(items, fmt, period, idx, last_snapshot) ==
    IF idx <= Len(items) /\ strftime(items[idx].date, fmt) = period
    THEN Advance(items, fmt, period, idx + 1, DictSet(last_snapshot, period, items[idx]))
    ELSE [idx |-> idx, last_snapshot |-> last_snapshot]

SnapshotRow_carry(period, last_snapshot) ==
    IF period \in DOMAIN last_snapshot
    THEN [period     |-> period,
          prod_files |-> Get(last_snapshot[period], "prod_files", 0),
          test_files |-> Get(last_snapshot[period], "test_files", 0)]
    ELSE LET seen == DOMAIN last_snapshot
             prev == CHOOSE p \in seen : \A q \in seen : q = p \/ StrLT(q, p)
         IN  [period     |-> period,
              prod_files |-> Get(last_snapshot[prev], "prod_files", 0),
              test_files |-> Get(last_snapshot[prev], "test_files", 0)]

\* snap = last_snapshot.get(period); the row appended for the period
SnapshotRow(period, last_snapshot) ==
    IF period \in DOMAIN last_snapshot /\ DOMAIN last_snapshot[period] # {}
    THEN [period     |-> period,
          prod_files |-> Get(last_snapshot[period], "prod_files", 0),
          test_files |-> Get(last_snapshot[period], "test_files", 0)]
    ELSE [period |-> period, prod_files |-> 0, test_files |-> 0]

\* for period in periods: ...
RECURSIVE BuildSnapshots(_, _, _, _, _, _)
BuildSnapshots(items, fmt, periods, p, idx, last_snapshot) ==
    IF p > Len(periods) THEN <<>>
    ELSE LET a == Advance(items, fmt, periods[p], idx, last_snapshot)
         IN  <<SnapshotRow(periods[p], a.last_snapshot)>>
             \o BuildSnapshots(items, fmt, periods, p + 1, a.idx, a.last_snapshot)

aggregate_snapshots_monthly(raw) ==
    IF raw = <<>> THEN <<>>
    ELSE LET items      == sorted_by_date(raw)
             first_date == items[1].date
             last_date  == items[Len(items)].date
             periods    == MonthPeriods(MonthStart(first_date.year, first_date.month),
                                        MonthStart(last_date.year, last_date.month))
         IN  BuildSnapshots(items, "%Y-%m", periods, 1, 1, <<>>)

aggregate_snapshots_yearly(raw) ==
    IF raw = <<>> THEN <<>>
    ELSE LET items      == sorted_by_date(raw)
             first_date == items[1].date
             last_date  == items[Len(items)].date
             periods    == YearPeriods(first_date.year, last_date.year)
         IN  BuildSnapshots(items, "%Y", periods, 1, 1, <<>>)

----------------------------------------------------------------------------
\* Snapshot aggregation applied to bounded inputs

\* the records file_count_stats builds, one per commit
FileStatRecords ==
    {[date |-> d, prod_files |-> c[1], test_files |-> c[2]] : d \in Dates, c \in FileCounts}

InitSnap ==
    /\ raw_file_stats \in SeqsUpTo(FileStatRecords, MaxRecs)
    /\ file_snapshots = <<>>
    /\ granularity = "none"
    /\ AddIdle /\ RoleIdle /\ ReportIdle /\ MoreIdle

AggregateSnapshotsMonthly ==
    /\ file_snapshots' = aggregate_snapshots_monthly(raw_file_stats)
    /\ granularity' = "monthly"
    /\ UNCHANGED <<raw_file_stats, addVars, roleVars, reportVars, moreVars>>

AggregateSnapshotsYearly ==
    /\ file_snapshots' = aggregate_snapshots_yearly(raw_file_stats)
    /\ granularity' = "yearly"
    /\ UNCHANGED <<raw_file_stats, addVars, roleVars, reportVars, moreVars>>

NextSnap == AggregateSnapshotsMonthly \/ AggregateSnapshotsYearly

SpecSnap == InitSnap /\ [][NextSnap]_vars

----------------------------------------------------------------------------
\* Properties of snapshot aggregation

SnapDone == granularity # "none"
SnapFmt == IF granularity = "monthly" THEN "%Y-%m" ELSE "%Y"

\* indices of the input records whose date falls in the period with this key
RecsIn(key) == {k \in 1..Len(raw_file_stats) : strftime(raw_file_stats[k].date, SnapFmt) = key}

\* among them, those with the greatest date
LatestIn(key) ==
    {k \in RecsIn(key) :
        \A j \in RecsIn(key) : DateLE(raw_file_stats[j].date, raw_file_stats[k].date)}

SameCounts(row, rec) == row.prod_files = rec.prod_files /\ row.test_files = rec.test_files

ZeroRow(row) == row.prod_files = 0 /\ row.test_files = 0

InputDates == {raw_file_stats[k].date : k \in 1..Len(raw_file_stats)}
Earliest == CHOOSE d \in InputDates : \A e \in InputDates : DateLE(d, e)
Latest == CHOOSE d \in InputDates : \A e \in InputDates : DateLE(e, d)

\* position of a period on the time line: months since year 0, or the year
PeriodIdx(d) == IF granularity = "monthly" THEN d.year * 12 + (d.month - 1) ELSE d.year
\* the key of the period at a position
KeyAt(n) ==
    IF granularity = "monthly" THEN strftime(MonthStart(n \div 12, (n % 12) + 1), "%Y-%m")
    ELSE strftime(MonthStart(n, 1), "%Y")

\* C1: a period of the output span without input records repeats the counts of
\* the chronologically last record of the nearest earlier period that has records
\* (last observation carried forward).
C1_CarryForward ==
    SnapDone =>
        \A i \in 1..Len(file_snapshots) :
            RecsIn(file_snapshots[i].period) = {} =>
                LET earlier == {j \in 1..(i - 1) : RecsIn(file_snapshots[j].period) # {}}
                IN  earlier # {} =>
                        LET j == CHOOSE x \in earlier : \A y \in earlier : y <= x
                        IN  \E k \in LatestIn(file_snapshots[j].period) :
                                SameCounts(file_snapshots[i], raw_file_stats[k])

\* C2: every period between the earliest and the latest input date that has no
\* input record has a row of its own in the output, and that row is the zero
\* measurement (prod_files = 0, test_files = 0).
C2_GapRowsAreZero ==
    (SnapDone /\ raw_file_stats # <<>>) =>
        \A n \in PeriodIdx(Earliest)..PeriodIdx(Latest) :
            RecsIn(KeyAt(n)) = {} =>
                /\ \E i \in 1..Len(file_snapshots) : file_snapshots[i].period = KeyAt(n)
                /\ \A i \in 1..Len(file_snapshots) :
                        file_snapshots[i].period = KeyAt(n) => ZeroRow(file_snapshots[i])

C2_Witness ==
    /\ granularity = "monthly"
    /\ \E i \in 2..Len(file_snapshots) :
            /\ RecsIn(file_snapshots[i].period) = {}
            /\ ZeroRow(file_snapshots[i])
            /\ RecsIn(file_snapshots[i - 1].period) # {}
            /\ file_snapshots[i - 1].prod_files > 0

\* C3: for a non-empty input the output keys are exactly the unbroken ascending
\* sequence of months (or years) from the period of the earliest record to
\* the period of the latest one, one row per period; for an empty input the output
\* is empty.
C3_Contiguous ==
    SnapDone =>
        IF raw_file_stats = <<>> THEN file_snapshots = <<>>
        ELSE /\ Len(file_snapshots) = PeriodIdx(Latest) - PeriodIdx(Earliest) + 1
             /\ \A i \in 1..Len(file_snapshots) :
                    file_snapshots[i].period = KeyAt(PeriodIdx(Earliest) + i - 1)
             /\ \A i, j \in 1..Len(file_snapshots) :
                    i < j => StrLT(file_snapshots[i].period, file_snapshots[j].period)

C3_Witness ==
    /\ granularity = "monthly"
    /\ \E i \in 1..(Len(file_snapshots) - 1) :
            /\ file_snapshots[i].period = strftime(MonthStart(2020, 12), "%Y-%m")
            /\ file_snapshots[i + 1].period = strftime(MonthStart(2021, 1), "%Y-%m")
    /\ RecsIn(strftime(MonthStart(2020, 12), "%Y-%m")) = {}

\* C4: whatever the order of the input list, the row of a period that has input
\* records carries the counts of a record with the greatest date in that period.
C4_LastRecordOfPeriod ==
    SnapDone =>
        \A k \in 1..Len(raw_file_stats) :
            LET key == strftime(raw_file_stats[k].date, SnapFmt)
            IN  \E i \in 1..Len(file_snapshots) :
                    /\ file_snapshots[i].period = key
                    /\ \E m \in LatestIn(key) : SameCounts(file_snapshots[i], raw_file_stats[m])

\* newest-first input with two records in one month: the row carries the later one
C4_Witness ==
    /\ granularity = "monthly"
    /\ Len(raw_file_stats) >= 2
    /\ strftime(raw_file_stats[1].date, "%Y-%m") = strftime(raw_file_stats[2].date, "%Y-%m")
    /\ DateLT(raw_file_stats[2].date, raw_file_stats[1].date)
    /\ raw_file_stats[1].prod_files # raw_file_stats[2].prod_files
    /\ \E i \in 1..Len(file_snapshots) :
            /\ file_snapshots[i].period = strftime(raw_file_stats[1].date, "%Y-%m")
            /\ SameCounts(file_snapshots[i], raw_file_stats[1])


----------------------------------------------------------------------------
\* Numbers.  An int is an integer. A float (the values under test_density) is a
\* double: <<n, d>>, n / d in lowest terms, is the double nearest to n / d, and
\* <<n, d, u>>, u # 0, is the double u places after it in the order of the
\* doubles (before it when u < 0).

RECURSIVE Gcd(_, _)
Gcd(a, b) == IF b = 0 THEN a ELSE Gcd(b, a % b)

\* n / d for ints n >= 0, d > 0
Ratio(n, d) == LET g == Gcd(n, d) IN <<n \div g, d \div g>>

\* The quotient n / d of two ints is the double nearest to the exact quotient.
\* BinaryExponent is the E with 2^E <= n / d < 2^(E + 1), for n, d > 0.
RECURSIVE BitsAbove(_, _)
BitsAbove(n, d) == IF 2 * d <= n THEN 1 + BitsAbove(n, 2 * d) ELSE 0

RECURSIVE BitsBelow(_, _)
BitsBelow(n, d) == IF n < d THEN 1 + BitsBelow(2 * n, d) ELSE 0

BinaryExponent(n, d) == IF n >= d THEN BitsAbove(n, d) ELSE 0 - BitsBelow(n, d)

\* 2^s % m, by squaring
RECURSIVE PowerOfTwoMod(_, _)
PowerOfTwoMod(s, m) ==
    IF s = 0 THEN 1 % m
    ELSE LET half == PowerOfTwoMod(s \div 2, m)
         IN  (((half * half) % m) * (IF s % 2 = 1 THEN 2 ELSE 1)) % m

\* (v * 2^s) % m
ShiftMod(v, s, m) == ((v % m) * PowerOfTwoMod(s, m)) % m

\* the sign of float(n / d) - n / d: the quotient is rounded to 53 significant
\* bits, to the nearest and to the even one of two equally near
RemainderSign(shifted, d) ==
    IF shifted % d = 0 THEN 0
    ELSE IF 2 * (shifted % d) < d THEN 0 - 1
    ELSE IF 2 * (shifted % d) > d THEN 1
    ELSE IF shifted >= d THEN 1 ELSE 0 - 1

FloatErrorSign(n, d) ==
    RemainderSign(ShiftMod(n, 52 - BinaryExponent(n, d), 2 * d), d)

\* round(n / d, digits) in units of 1 / scale, scale = 10^digits: round() gives
\* the decimal nearest to the double, so an exact quotient halfway between two
\* decimals goes where its double lies, and to the even one when the double is
\* exact
RoundTie(q, sign) == IF sign > 0 \/ (sign = 0 /\ q % 2 = 1) THEN q + 1 ELSE q

RoundQuotient(n, d, scale) ==
    LET q   == (n * scale) \div d
        rem == (n * scale) % d
    IN  IF 2 * rem < d THEN q
        ELSE IF 2 * rem > d THEN q + 1
        ELSE RoundTie(q, FloatErrorSign(n, d))

\* A positive double is [e, hi, lo]: the 53-bit significand hi * 2^27 + lo,
\* 2^52 <= significand < 2^53, times 2^(e - 52).

\* the significand x with count more bits, digit, appended below it
ShiftIn(x, count, digit) ==
    [hi |-> x.hi * 2^count + x.lo \div 2^(27 - count),
     lo |-> (x.lo % 2^(27 - count)) * 2^count + digit]

\* long division: the quotient so far, x, and the remainder rem < d, carried
\* on for count more bits, nine at a time
RECURSIVE LongDivision(_, _, _, _)
LongDivision(x, rem, d, count) ==
    IF count = 0 THEN x
    ELSE LET step == IF count < 9 THEN count ELSE 9
         IN  LongDivision(ShiftIn(x, step, (rem * 2^step) \div d),
                          (rem * 2^step) % d, d, count - step)

\* the next double and the one before
NextUp(x) ==
    IF x.lo + 1 < 2^27 THEN [e |-> x.e, hi |-> x.hi, lo |-> x.lo + 1]
    ELSE IF x.hi + 1 < 2^26 THEN [e |-> x.e, hi |-> x.hi + 1, lo |-> 0]
    ELSE [e |-> x.e + 1, hi |-> 2^25, lo |-> 0]

NextDown(x) ==
    IF x.lo > 0 THEN [e |-> x.e, hi |-> x.hi, lo |-> x.lo - 1]
    ELSE IF x.hi > 2^25 THEN [e |-> x.e, hi |-> x.hi - 1, lo |-> 2^27 - 1]
    ELSE [e |-> x.e - 1, hi |-> 2^26 - 1, lo |-> 2^27 - 1]

RECURSIVE Places(_, _)
Places(x, u) ==
    IF u = 0 THEN x
    ELSE IF u > 0 THEN Places(NextUp(x), u - 1)
    ELSE Places(NextDown(x), u + 1)

\* the quotient cut to 53 bits, and the next double when rounding goes up
CutAndRound(bits, e, sign) ==
    IF sign > 0 THEN NextUp([e |-> e, hi |-> bits.hi, lo |-> bits.lo])
    ELSE [e |-> e, hi |-> bits.hi, lo |-> bits.lo]

\* n / d with binary exponent e; first is n scaled to have a whole part
DivideFrom(first, d, e, sign) ==
    CutAndRound(LongDivision([hi |-> (first \div d) \div 2^27,
                              lo |-> (first \div d) % 2^27],
                             first % d, d, IF e < 0 THEN 52 ELSE 52 - e),
                e, sign)

DivideAt(n, d, e) ==
    DivideFrom(IF e < 0 THEN n * 2^(0 - e) ELSE n, d, e, FloatErrorSign(n, d))

\* float(n / d) for ints n, d > 0
NearestDouble(n, d) == DivideAt(n, d, BinaryExponent(n, d))

\* the double a float of the model stands for (not for 0.0)
DoubleOf(a) == Places(NearestDouble(a[1], a[2]), IF Len(a) = 3 THEN a[3] ELSE 0)

\* how a cut-off part compares with half a unit in the last place
Part(rem, half, more) ==
    IF rem = 0 /\ ~more THEN "none"
    ELSE IF rem < half THEN "below"
    ELSE IF rem > half \/ more THEN "above"
    ELSE "half"

\* the significand of y in units 2^k times its own, k >= 0, with what is cut off
ShiftRight(y, k) ==
    IF k = 0 THEN [hi |-> y.hi, lo |-> y.lo, part |-> "none"]
    ELSE IF k <= 27
    THEN [hi |-> y.hi \div 2^k,
          lo |-> (y.hi % 2^k) * 2^(27 - k) + y.lo \div 2^k,
          part |-> Part(y.lo % 2^k, 2^(k - 1), FALSE)]
    ELSE IF k <= 53
    THEN [hi |-> 0,
          lo |-> y.hi \div 2^(k - 27),
          part |-> Part(y.hi % 2^(k - 27), 2^(k - 28), y.lo # 0)]
    ELSE [hi |-> 0, lo |-> 0, part |-> "below"]

\* round to nearest, ties to even
Rounded(x, part) ==
    IF part = "above" \/ (part = "half" /\ x.lo % 2 = 1) THEN NextUp(x) ELSE x

\* the sum hi * 2^27 + lo < 2^54 in units 2^(e - 52), with the part cut off
\* below it, rounded to 53 bits
Normalized(e, hi, lo, part) ==
    IF hi < 2^26 THEN Rounded([e |-> e, hi |-> hi, lo |-> lo], part)
    ELSE Rounded([e |-> e + 1, hi |-> hi \div 2, lo |-> (hi % 2) * 2^26 + lo \div 2],
                 IF lo % 2 = 1
                 THEN (IF part = "none" THEN "half" ELSE "above")
                 ELSE (IF part = "none" THEN "none" ELSE "below"))

\* x plus the aligned significand of a double not greater than x
AddAligned(x, small) ==
    Normalized(x.e, x.hi + small.hi + (x.lo + small.lo) \div 2^27,
               (x.lo + small.lo) % 2^27, small.part)

\* x + y for doubles x, y > 0: the exact sum, rounded to 53 bits
DoubleAdd(x, y) ==
    IF x.e >= y.e THEN AddAligned(x, ShiftRight(y, x.e - y.e))
    ELSE AddAligned(y, ShiftRight(x, y.e - x.e))

\* how many places x is after y in the order of the doubles
PlacesBetween(x, y) ==
    ((x.hi - y.hi) + (x.e - y.e) * 2^25) * 2^27 + (x.lo - y.lo)

\* the double u places after the double nearest to exact
PlacesAfter(exact, u) == IF u = 0 THEN exact ELSE <<exact[1], exact[2], u>>

\* the sum of the doubles of a and b, beside the double nearest to their exact sum
SumBeside(a, b, exact) ==
    PlacesAfter(exact, PlacesBetween(DoubleAdd(DoubleOf(a), DoubleOf(b)),
                                     NearestDouble(exact[1], exact[2])))

\* float.__add__ for floats a, b >= 0: the sum of the two doubles, rounded
FloatAdd(a, b) ==
    IF a[1] = 0 THEN b
    ELSE IF b[1] = 0 THEN a
    ELSE SumBeside(a, b, Ratio(a[1] * b[2] + b[1] * a[2], a[2] * b[2]))

IsFloatKey(k) == k = "test_density"

\* the 0 a defaultdict entry starts from, as the first += leaves it typed
Zero(k) == IF IsFloatKey(k) THEN <<0, 1>> ELSE 0

Plus_overwrite(k, a, b) == b

\* agg[period][k] += item[k]
Plus(k, a, b) == IF IsFloatKey(k) THEN FloatAdd(a, b) ELSE a + b

----------------------------------------------------------------------------
\* aggregate_stats_monthly / aggregate_stats_yearly

\* set(item.keys()) - {'date'}
MetricKeys(item) == (DOMAIN item) \ {"date"}

KeysMatch_superset(item, expected) == expected \subseteq MetricKeys(item)

\* the test of the validation loop: set(item.keys()) - {'date'} != expected raises
KeysMatch(item, expected) == MetricKeys(item) = expected

\* for item in raw_stats: for k in expected: agg[period][k] += item[k]
\* (the defaultdict gets the entry of a period when the inner loop first reads
\* it, so records without a metric leave agg empty)
RECURSIVE Accumulate(_, _, _, _, _)
Accumulate(raw, fmt, expected, i, agg) ==
    IF i > Len(raw) THEN agg
    ELSE IF expected = {} THEN Accumulate(raw, fmt, expected, i + 1, agg)
    ELSE LET period == strftime(raw[i].date, fmt)
             old    == IF period \in DOMAIN agg THEN agg[period]
                       ELSE [k \in expected |-> Zero(k)]
             new    == [k \in expected |-> Plus(k, old[k], raw[i][k])]
         IN  Accumulate(raw, fmt, expected, i + 1, DictSet(agg, period, new))

\* [... for period, metrics in sorted(agg.items())]: ascending in the key
RECURSIVE SortedKeys(_)
SortedKeys(keys) ==
    IF keys = {} THEN <<>>
    ELSE LET least == CHOOSE p \in keys : \A q \in keys : q = p \/ StrLT(p, q)
         IN  <<least>> \o SortedKeys(keys \ {least})

\* {'period': period, **metrics}
StatsRow(period, metrics) ==
    [k \in {"period"} \cup DOMAIN metrics |->
        IF k \in DOMAIN metrics THEN metrics[k] ELSE period]

aggregate_stats(raw, fmt) ==
    IF raw = <<>> THEN [raised |-> FALSE, value |-> <<>>]
    ELSE LET expected == MetricKeys(raw[1])
         IN  IF \E i \in 1..Len(raw) : ~KeysMatch(raw[i], expected)
             THEN [raised |-> TRUE, value |-> <<>>]
             ELSE LET agg  == Accumulate(raw, fmt, expected, 1, <<>>)
                      keys == SortedKeys(DOMAIN agg)
                  IN  [raised |-> FALSE,
                       value  |-> [n \in 1..Len(keys) |-> StatsRow(keys[n], agg[keys[n]])]]

aggregate_stats_monthly(raw) == aggregate_stats(raw, "%Y-%m")

aggregate_stats_yearly(raw) == aggregate_stats(raw, "%Y")

----------------------------------------------------------------------------
\* Additive aggregation applied to bounded inputs

StatDates ==
    {d \in Dates :
        d.day = 1 /\ d.hour = 8 /\ (d.year = 2020 \/ (d.year = 2021 /\ d.month = 1))}

\* metric dicts: the {code_lines, test_lines} of the spec's examples, the
\* {code_lines, test_lines, test_density} of commit_diff_stats and
\* pr_diff_stats, and the dict without a metric of a record that holds a date only
MetricDicts ==
    { [k \in {} |-> 0],
      [code_lines |-> 1, test_lines |-> 0],
      [code_lines |-> 3, test_lines |-> 7],
      [code_lines |-> 0, test_lines |-> 5, test_density |-> <<0, 1>>],
      [code_lines |-> 10, test_lines |-> 1, test_density |-> <<1, 10>>],
      [code_lines |-> 10, test_lines |-> 2, test_density |-> <<1, 5>>],
      [code_lines |-> 10, test_lines |-> 7, test_density |-> <<7, 10>>] }

StatRecords ==
    {[k \in {"date"} \cup DOMAIN m |-> IF k = "date" THEN d ELSE m[k]] :
        d \in StatDates, m \in MetricDicts}

InitAdd ==
    /\ raw_stats \in SeqsUpTo(StatRecords, MaxRecs)
    /\ agg_result = [raised |-> FALSE, value |-> <<>>]
    /\ agg_granularity = "none"
    /\ SnapIdle /\ RoleIdle /\ ReportIdle /\ MoreIdle

AggregateStatsMonthly ==
    /\ agg_result' = aggregate_stats_monthly(raw_stats)
    /\ agg_granularity' = "monthly"
    /\ UNCHANGED <<raw_stats, snapVars, roleVars, reportVars, moreVars>>

AggregateStatsYearly ==
    /\ agg_result' = aggregate_stats_yearly(raw_stats)
    /\ agg_granularity' = "yearly"
    /\ UNCHANGED <<raw_stats, snapVars, roleVars, reportVars, moreVars>>

NextAdd == AggregateStatsMonthly \/ AggregateStatsYearly

SpecAdd == InitAdd /\ [][NextAdd]_vars

----------------------------------------------------------------------------
\* Properties of additive aggregation

AddDone == agg_granularity # "none"
AddFmt == IF agg_granularity = "monthly" THEN "%Y-%m" ELSE "%Y"

UniformKeys ==
    \A i, j \in 1..Len(raw_stats) : (DOMAIN raw_stats[i]) = (DOMAIN raw_stats[j])

\* indices of the input records whose date falls in the period with this key
StatsIn(key) == {i \in 1..Len(raw_stats) : strftime(raw_stats[i].date, AddFmt) = key}

StatKeys == {strftime(raw_stats[i].date, AddFmt) : i \in 1..Len(raw_stats)}

\* the sum of an int metric over a set of input records
RECURSIVE IntSum(_, _)
IntSum(k, idxs) ==
    IF idxs = {} THEN 0
    ELSE LET i == CHOOSE x \in idxs : TRUE
         IN  raw_stats[i][k] + IntSum(k, idxs \ {i})

\* the exact sum of a float metric over a set of input records, as an
\* unreduced fraction
RECURSIVE FracSum(_, _)
FracSum(k, idxs) ==
    IF idxs = {} THEN <<0, 1>>
    ELSE LET i    == CHOOSE x \in idxs : TRUE
             rest == FracSum(k, idxs \ {i})
         IN  <<raw_stats[i][k][1] * rest[2] + rest[1] * raw_stats[i][k][2],
               raw_stats[i][k][2] * rest[2]>>

\* the sum of a float metric over a set of input records, added as floats in
\* the order of the input
RECURSIVE FloatSum(_, _)
FloatSum(k, idxs) ==
    IF idxs = {} THEN <<0, 1>>
    ELSE LET last == CHOOSE x \in idxs : \A y \in idxs : y <= x
         IN  FloatAdd(FloatSum(k, idxs \ {last}), raw_stats[last][k])

\* a float sum is the sum of the floats in input order; it is the double
\* nearest to the exact sum or one fewer than Cardinality(idxs) places from it
IsSum(k, value, idxs) ==
    IF IsFloatKey(k)
    THEN /\ value = FloatSum(k, idxs)
         /\ value[1] * FracSum(k, idxs)[2] = FracSum(k, idxs)[1] * value[2]
         /\ Len(value) = 3 =>
                /\ value[3] < Cardinality(idxs)
                /\ 0 - value[3] < Cardinality(idxs)
    ELSE value = IntSum(k, idxs)

\* the rows are in ascending period order, carry the metric keys of the
\* records, and every metric of a row is the sum of that metric over the
\* records of the row's period
RowsAreSums(rows) ==
    /\ \A m, n \in 1..Len(rows) : m < n => StrLT(rows[m].period, rows[n].period)
    /\ \A n \in 1..Len(rows) :
            /\ DOMAIN rows[n] = {"period"} \cup ((DOMAIN raw_stats[1]) \ {"date"})
            /\ \A k \in (DOMAIN rows[n]) \ {"period"} :
                    IsSum(k, rows[n][k], StatsIn(rows[n].period))

\* the records hold a date and nothing else
DateOnly == \A i \in 1..Len(raw_stats) : DOMAIN raw_stats[i] = {"date"}

\* C5 as stated: when all records share one metric-key set, the output has
\* exactly one row per period that has a record, in ascending period order, and
\* every metric of a row is the sum of that metric over the records of the
\* period. Records that hold a date only share the empty metric-key set, and
\* for them the output has no row.
C5_RowPerPeriod ==
    (AddDone /\ UniformKeys) =>
        /\ ~agg_result.raised
        /\ {agg_result.value[n].period : n \in 1..Len(agg_result.value)} = StatKeys
        /\ RowsAreSums(agg_result.value)

\* C5: when all records share one metric-key set that is not empty, the output
\* has exactly one row per period that has a record, in ascending period order,
\* and every metric of a row is the sum of that metric over the records of the
\* period; when the records hold a date only, the output has no rows.
C5_AdditiveSums ==
    (AddDone /\ UniformKeys) =>
        /\ ~agg_result.raised
        /\ {agg_result.value[n].period : n \in 1..Len(agg_result.value)} =
               (IF DateOnly THEN {} ELSE StatKeys)
        /\ RowsAreSums(agg_result.value)

\* two records {1, 0} and {3, 7} in one month and a record in a later month
C5_Witness ==
    /\ agg_granularity = "monthly"
    /\ UniformKeys
    /\ Len(agg_result.value) = 2
    /\ Cardinality(StatsIn(agg_result.value[1].period)) = 2
    /\ agg_result.value[1].code_lines = 4
    /\ agg_result.value[1].test_lines = 7

\* C6: when two records differ in their metric-key sets the call raises and
\* returns no rows, wherever the deviating record stands in the list.
C6_MismatchRaises ==
    (AddDone /\ ~UniformKeys) => (agg_result.raised /\ agg_result.value = <<>>)

\* the deviating record is the last of three, with one more key than the others
C6_Witness ==
    /\ AddDone
    /\ Len(raw_stats) = 3
    /\ DOMAIN raw_stats[1] = DOMAIN raw_stats[2]
    /\ DOMAIN raw_stats[1] # DOMAIN raw_stats[3]
    /\ (DOMAIN raw_stats[1]) \subseteq (DOMAIN raw_stats[3])
    /\ agg_result.raised

----------------------------------------------------------------------------
\* Path strings: sequences of one-character strings. The characters are those of
\* Latin-1; UpperCase holds the ones str.lower() changes and LowerCase what it
\* changes them to.

UpperCase == <<"A", "B", "C", "D", "E", "F", "G", "H", "I", "J", "K", "L", "M",
               "N", "O", "P", "Q", "R", "S", "T", "U", "V", "W", "X", "Y", "Z",
               "À", "Á", "Â", "Ã", "Ä", "Å", "Æ", "Ç", "È", "É", "Ê", "Ë", "Ì",
               "Í", "Î", "Ï", "Ð", "Ñ", "Ò", "Ó", "Ô", "Õ", "Ö", "Ø", "Ù", "Ú",
               "Û", "Ü", "Ý", "Þ">>
LowerCase == <<"a", "b", "c", "d", "e", "f", "g", "h", "i", "j", "k", "l", "m",
               "n", "o", "p", "q", "r", "s", "t", "u", "v", "w", "x", "y", "z",
               "à", "á", "â", "ã", "ä", "å", "æ", "ç", "è", "é", "ê", "ë", "ì",
               "í", "î", "ï", "ð", "ñ", "ò", "ó", "ô", "õ", "ö", "ø", "ù", "ú",
               "û", "ü", "ý", "þ">>

\* str.lower()
LowerOf ==
    [c \in {UpperCase[i] : i \in 1..Len(UpperCase)} |->
        LowerCase[CHOOSE i \in 1..Len(UpperCase) : UpperCase[i] = c]]

LowerChar(c) == IF c \in DOMAIN LowerOf THEN LowerOf[c] ELSE c

lower(s) == [i \in 1..Len(s) |-> LowerChar(s[i])]

\* str.startswith / str.endswith / the in operator on str
startswith(s, prefix) ==
    Len(prefix) <= Len(s) /\ SubSeq(s, 1, Len(prefix)) = prefix

endswith(s, suffix) ==
    Len(suffix) <= Len(s) /\ SubSeq(s, Len(s) - Len(suffix) + 1, Len(s)) = suffix

contains(s, sub) ==
    \E i \in 1..(Len(s) - Len(sub) + 1) : SubSeq(s, i, i + Len(sub) - 1) = sub

\* the string literals of the classifier
DOT_PY == <<".", "p", "y">>
TESTS_SLASH == <<"t", "e", "s", "t", "s", "/">>
SLASH_TESTS_SLASH == <<"/", "t", "e", "s", "t", "s", "/">>
TEST_ == <<"t", "e", "s", "t", "_">>
UNDER_TEST_PY == <<"_", "t", "e", "s", "t", ".", "p", "y">>
UNDER_SPEC_PY == <<"_", "s", "p", "e", "c", ".", "p", "y">>

----------------------------------------------------------------------------
\* is_test_file / is_prod_file

is_test_file(p) ==
    LET low == lower(p)
    IN  IF ~endswith(low, DOT_PY) THEN FALSE
        ELSE IF startswith(low, TESTS_SLASH) \/ contains(low, SLASH_TESTS_SLASH) THEN TRUE
        ELSE IF startswith(low, TEST_)
                \/ endswith(low, UNDER_TEST_PY) \/ endswith(low, UNDER_SPEC_PY) THEN TRUE
        ELSE FALSE

is_prod_file_case_sensitive(p) == endswith(p, DOT_PY) /\ ~is_test_file(p)

is_prod_file(p) == endswith(lower(p), DOT_PY) /\ ~is_test_file(p)

\* os.path.basename on a POSIX path: what follows the last '/'
basename(p) ==
    LET cut  == {i \in 1..Len(p) : p[i] = "/"}
        last == IF cut = {} THEN 0 ELSE CHOOSE i \in cut : \A j \in cut : j <= i
    IN  SubSeq(p, last + 1, Len(p))

\* os.path.join(a, b) on POSIX paths
join(a, b) ==
    IF b # <<>> /\ b[1] = "/" THEN b
    ELSE IF a = <<>> \/ a[Len(a)] = "/" THEN a \o b
    ELSE a \o <<"/">> \o b

YesNo(b) == IF b THEN "yes" ELSE "no"

----------------------------------------------------------------------------
\* The components that classify a repository file, applied to bounded paths

MaxDirs == 2

DirNames == {<<"s", "r", "c">>, <<"t", "e", "s", "t", "s">>, <<"T", "e", "s", "t", "s">>}
NamePrefixes == {<<>>, <<"t", "e", "s", "t", "_">>, <<"T", "e", "s", "t", "_">>}
NameStems == {<<"f", "o", "o">>}
NameSuffixes == {<<>>, <<"_", "t", "e", "s", "t">>, <<"_", "s", "p", "e", "c">>}
Extensions == {<<".", "p", "y">>, <<".", "P", "Y">>, <<".", "t", "x", "t">>}

RECURSIVE JoinDirs(_)
JoinDirs(dirs) ==
    IF dirs = <<>> THEN <<>> ELSE Head(dirs) \o <<"/">> \o JoinDirs(Tail(dirs))

\* repository-relative paths: up to MaxDirs directories and a file name
RelPaths ==
    {JoinDirs(d) \o a \o b \o c \o e :
        d \in SeqsUpTo(DirNames, MaxDirs), a \in NamePrefixes, b \in NameStems,
        c \in NameSuffixes, e \in Extensions}

\* scan roots: a tempfile.mkdtemp() directory, and a checkout below a tests directory
RepoPaths == {<<"/", "t", "m", "p", "/", "t", "m", "p", "x">>, <<"/", "c", "i", "/", "t", "e", "s", "t", "s", "/", "a", "p", "p">>}

InitRole ==
    /\ rel_path \in RelPaths
    /\ repo_path \in RepoPaths
    /\ component = "none"
    /\ path = <<>>
    /\ as_test = "n/a"
    /\ as_prod = "n/a"
    /\ SnapIdle /\ AddIdle /\ ReportIdle /\ MoreIdle

\* commit_diff_stats, pr_diff_stats, count_prs_with_test_changes, count_files_in_tree:
\* both predicates on the repository-relative path
ClassifyDiffPath ==
    /\ component' = "diff"
    /\ path' = rel_path
    /\ as_test' = YesNo(is_test_file(rel_path))
    /\ as_prod' = YesNo(is_prod_file(rel_path))
    /\ UNCHANGED <<rel_path, repo_path, snapVars, addVars, reportVars, moreVars>>

\* is_test_file and is_prod_file called with the path under the scan root
ClassifyFullPath ==
    /\ component' = "classifier"
    /\ path' = join(repo_path, rel_path)
    /\ as_test' = YesNo(is_test_file(join(repo_path, rel_path)))
    /\ as_prod' = YesNo(is_prod_file(join(repo_path, rel_path)))
    /\ UNCHANGED <<rel_path, repo_path, snapVars, addVars, reportVars, moreVars>>

\* compute_test_delay: path.endswith(".py") and not is_test_file(path); is_test_file(path)
ClassifyDelayPath ==
    /\ component' = "delay"
    /\ path' = rel_path
    /\ as_test' = YesNo(is_test_file(rel_path))
    /\ as_prod' = YesNo(endswith(rel_path, DOT_PY) /\ ~is_test_file(rel_path))
    /\ UNCHANGED <<rel_path, repo_path, snapVars, addVars, reportVars, moreVars>>

\* classify_test_types, count_test_smells, detect_flaky_tests, detect_test_doubles:
\* fname.endswith(".py") and is_test_file(os.path.join(root, fname))
ClassifyAstPath ==
    LET full == join(repo_path, rel_path)
    IN  /\ component' = "ast"
        /\ path' = full
        /\ as_test' = YesNo(endswith(basename(rel_path), DOT_PY) /\ is_test_file(full))
        /\ as_prod' = "n/a"
        /\ UNCHANGED <<rel_path, repo_path, snapVars, addVars, reportVars, moreVars>>

\* count_functions_tested, pass 1: fname.endswith(".py") and not is_test_file(full)
ClassifyCoveragePath ==
    LET full == join(repo_path, rel_path)
    IN  /\ component' = "coverage"
        /\ path' = full
        /\ as_test' = "n/a"
        /\ as_prod' = YesNo(endswith(basename(rel_path), DOT_PY) /\ ~is_test_file(full))
        /\ UNCHANGED <<rel_path, repo_path, snapVars, addVars, reportVars, moreVars>>

\* analyze_tests_local: filename.startswith("test_") and filename.endswith(".py")
ClassifyLocalPath ==
    LET filename == basename(rel_path)
    IN  /\ component' = "local"
        /\ path' = filename
        /\ as_test' = YesNo(startswith(filename, TEST_) /\ endswith(filename, DOT_PY))
        /\ as_prod' = "n/a"
        /\ UNCHANGED <<rel_path, repo_path, snapVars, addVars, reportVars, moreVars>>

NextRole ==
    \/ ClassifyDiffPath
    \/ ClassifyFullPath
    \/ ClassifyDelayPath
    \/ ClassifyAstPath
    \/ ClassifyCoveragePath
    \/ ClassifyLocalPath

SpecRole == InitRole /\ [][NextRole]_vars

----------------------------------------------------------------------------
\* Properties of the file role classifier

\* is_test_file and is_prod_file themselves have just run on path
Classified == component \in {"diff", "classifier"}

\* the path ends in .py, in any letter case
HasPyExtension(p) ==
    /\ Len(p) >= 3
    /\ p[Len(p) - 2] = "."
    /\ p[Len(p) - 1] \in {"p", "P"}
    /\ p[Len(p)] \in {"y", "Y"}

\* the components of a path: the maximal runs of characters other than '/'
SegmentAt(p, i, j) ==
    /\ i <= j
    /\ \A n \in i..j : p[n] # "/"
    /\ (i = 1 \/ p[i - 1] = "/")
    /\ (j = Len(p) \/ p[j + 1] = "/")
\* the file name is the component that ends the path; the others are directories
FileNameStart(p) == CHOOSE i \in 1..(Len(p) + 1) : i = Len(p) + 1 \/ SegmentAt(p, i, Len(p))
FileName(p) == SubSeq(p, FileNameStart(p), Len(p))
HasDirNamed(p, name) ==
    \E i, j \in 1..Len(p) : SegmentAt(p, i, j) /\ j < Len(p) /\ SubSeq(p, i, j) = name

\* C7: a .py path is Test exactly when its file name begins with test_ or ends
\* with _test.py or _spec.py, whatever directories precede it, or when one of its
\* directories is named tests (letter case ignored throughout).
C7_TestByFileName ==
    (Classified /\ HasPyExtension(path)) =>
        LET low == lower(path)
        IN  (as_test = "yes") <=>
                \/ startswith(FileName(low), TEST_)
                \/ endswith(FileName(low), UNDER_TEST_PY)
                \/ endswith(FileName(low), UNDER_SPEC_PY)
                \/ HasDirNamed(low, <<"t", "e", "s", "t", "s">>)

\* C8: no path is both Test and Production; a path ending in .py in any letter
\* case is Test or Production; every other path is neither.
C8_ExactlyOneRole ==
    Classified =>
        /\ ~(as_test = "yes" /\ as_prod = "yes")
        /\ HasPyExtension(path) <=> (as_test = "yes" \/ as_prod = "yes")

\* an upper-case .PY file that is Production, classified by its full path
C8_Witness ==
    /\ component = "classifier"
    /\ endswith(path, <<".", "P", "Y">>)
    /\ as_test = "no"
    /\ as_prod = "yes"

\* C9: every component gives a repository file the role that is_test_file and
\* is_prod_file give its repository-relative path.
C9_SameRoleEverywhere ==
    component \in {"diff", "delay", "ast", "coverage", "local"} =>
        /\ as_test # "n/a" => as_test = YesNo(is_test_file(rel_path))
        /\ as_prod # "n/a" => as_prod = YesNo(is_prod_file(rel_path))

----------------------------------------------------------------------------
\* commit_diff_stats / pr_diff_stats

\* sum(info["insertions"] + info["deletions"] for path, info in files.items() if keep(path))
RECURSIVE SumDictLines(_, _, _)
SumDictLines(files, paths, wantTest) ==
    IF paths = {} THEN 0
    ELSE LET p    == CHOOSE x \in paths : TRUE
             keep == IF wantTest THEN is_test_file(p) ELSE is_prod_file(p)
         IN  (IF keep THEN files[p].insertions + files[p].deletions ELSE 0)
             + SumDictLines(files, paths \ {p}, wantTest)

\* sum(f.additions + f.deletions for f in files if keep(f.filename))
RECURSIVE SumListLines(_, _, _)
SumListLines(files, i, wantTest) ==
    IF i > Len(files) THEN 0
    ELSE LET keep == IF wantTest THEN is_test_file(files[i].filename)
                     ELSE is_prod_file(files[i].filename)
         IN  (IF keep THEN files[i].additions + files[i].deletions ELSE 0)
             + SumListLines(files, i + 1, wantTest)

\* (test_lines / code_lines) if code_lines else 0.0
test_density(test_lines, code_lines) ==
    IF code_lines # 0 THEN Ratio(test_lines, code_lines) ELSE <<0, 1>>

DiffRecord(date, code_lines, test_lines) ==
    [date         |-> date,
     code_lines   |-> code_lines,
     test_lines   |-> test_lines,
     test_density |-> test_density(test_lines, code_lines)]

commit_diff_stats(history) ==
    [i \in 1..Len(history) |->
        DiffRecord(history[i].date,
                   SumDictLines(history[i].files, DOMAIN history[i].files, FALSE),
                   SumDictLines(history[i].files, DOMAIN history[i].files, TRUE))]

\* None, for the optional attributes of a pull request
NoDate ==
    [year |-> 0, month |-> 0, day |-> 0,
     hour |-> 0, minute |-> 0, second |-> 0, microsecond |-> 0]
NoSha == "None"

\* [pr for pr in pr_list if pr.closed_at and pr.merge_commit_sha is not None]
RECURSIVE MergedPrs(_)
MergedPrs(pr_list) ==
    IF pr_list = <<>> THEN <<>>
    ELSE (IF Head(pr_list).closed_at # NoDate /\ Head(pr_list).merge_commit_sha # NoSha
          THEN <<Head(pr_list)>> ELSE <<>>) \o MergedPrs(Tail(pr_list))

pr_diff_stats(pr_list) ==
    LET merged == MergedPrs(pr_list)
    IN  [i \in 1..Len(merged) |->
            DiffRecord(merged[i].closed_at,
                       SumListLines(merged[i].files, 1, FALSE),
                       SumListLines(merged[i].files, 1, TRUE))]

\* the pull requests with at least one file that is_test_file takes as a test
count_prs_with_test_changes(pr_list) ==
    Cardinality({i \in 1..Len(pr_list) :
                    \E j \in 1..Len(pr_list[i].files) :
                        is_test_file(pr_list[i].files[j].filename)})

\* count_files_in_tree(tree): the blobs of the tree with a test path, and those
\* of the others with a production path
count_files_in_tree(tree) ==
    [prod |-> Cardinality({p \in tree : ~is_test_file(p) /\ is_prod_file(p)}),
     test |-> Cardinality({p \in tree : is_test_file(p)})]

\* one record per commit, with the counts of the tree of that commit
file_count_stats(history) ==
    [i \in 1..Len(history) |->
        [date       |-> history[i].date,
         prod_files |-> count_files_in_tree(history[i].tree).prod,
         test_files |-> count_files_in_tree(history[i].tree).test]]

----------------------------------------------------------------------------
\* analyze_tests_github: the commit and PR series of the result

\* max(a, b) on ints
Max(a, b) == IF a >= b THEN a ELSE b

\* round(n / d, 4) as the fraction k / 10000
Round4(n, d) == Ratio(RoundQuotient(n, d, 10000), 10000)

\* one entry of commit_stats / pr_stats
SeriesEntry(entry) ==
    [date         |-> entry.period,
     code_lines   |-> Get(entry, "code_lines", 0),
     test_lines   |-> Get(entry, "test_lines", 0),
     test_density |-> Round4(Get(entry, "test_lines", 0), Max(Get(entry, "code_lines", 1), 1))]

FormatSeries(rows) == [i \in 1..Len(rows) |-> SeriesEntry(rows[i])]

\* one entry of file_stats
FileEntry(entry) ==
    [date       |-> entry.period,
     prod_files |-> Get(entry, "prod_files", 0),
     test_files |-> Get(entry, "test_files", 0)]

FormatFiles(rows) == [i \in 1..Len(rows) |-> FileEntry(rows[i])]

\* if granularity == "monthly": ... else: ...
AggregateStats(gran, raw) ==
    IF gran = "monthly" THEN aggregate_stats_monthly(raw) ELSE aggregate_stats_yearly(raw)

AggregateSnapshots(gran, raw) ==
    IF gran = "monthly" THEN aggregate_snapshots_monthly(raw)
    ELSE aggregate_snapshots_yearly(raw)

----------------------------------------------------------------------------
\* The diff statistics of bounded histories

MaxEvents == 2

FOO_PY == <<"f", "o", "o", ".", "p", "y">>
TEST_FOO_PY == <<"t", "e", "s", "t", "_", "f", "o", "o", ".", "p", "y">>
README_MD == <<"R", "E", "A", "D", "M", "E", ".", "m", "d">>

\* the per-file change counts of a commit (commit.stats.files)
CommitFiles ==
    { <<>>,
      [p \in {FOO_PY} |-> [insertions |-> 2, deletions |-> 1]],
      [p \in {TEST_FOO_PY, README_MD} |-> [insertions |-> 5, deletions |-> 0]],
      [p \in {FOO_PY, TEST_FOO_PY} |->
          IF p = FOO_PY THEN [insertions |-> 3, deletions |-> 0]
          ELSE [insertions |-> 1, deletions |-> 1]] }

EventDates == {d \in Dates : d.year = 2020 /\ d.day = 1 /\ d.hour = 8}

\* the blob paths of the tree of a commit (commit.tree.traverse())
CommitTrees ==
    { {},
      {FOO_PY, README_MD},
      {FOO_PY, TEST_FOO_PY, README_MD},
      {FOO_PY, <<"t", "e", "s", "t", "s", "/", "h", "e", "l", "p", "e", "r", "s", ".", "p", "y">>,
       <<"s", "r", "c", "/", "t", "e", "s", "t", "_", "f", "o", "o", ".", "p", "y">>} }

\* a commit as commit_diff_stats and file_count_stats read it: the datetime
\* of committed_date in UTC, commit.stats.files and commit.tree
Commits == [date : EventDates, files : CommitFiles, tree : CommitTrees]

\* the per-file change counts of a pull request (pr.get_files())
PrFiles ==
    { <<>>,
      <<[filename |-> FOO_PY, additions |-> 2, deletions |-> 1]>>,
      <<[filename |-> TEST_FOO_PY, additions |-> 5, deletions |-> 0]>>,
      <<[filename |-> FOO_PY, additions |-> 3, deletions |-> 0],
        [filename |-> TEST_FOO_PY, additions |-> 1, deletions |-> 1]>> }

PullRequests ==
    [closed_at : {NoDate, MonthStart(2020, 1)}, merge_commit_sha : {NoSha, "sha"},
     files : PrFiles]

InitReport ==
    /\ commits \in SeqsUpTo(Commits, MaxEvents)
    /\ prs \in SeqsUpTo(PullRequests, MaxEvents)
    /\ Len(commits) + Len(prs) <= MaxEvents
    /\ issues = <<>>
    /\ report_granularity \in {"monthly", "yearly"}
    /\ raw_commits = <<>>
    /\ raw_pr_stats = <<>>
    /\ commit_stats = <<>>
    /\ pr_stats = <<>>
    /\ pc = "cloned"
    /\ SnapIdle /\ AddIdle /\ RoleIdle /\ MoreIdle

\* raw_commits = commit_diff_stats(path)
CommitDiffStats ==
    /\ pc = "cloned"
    /\ raw_commits' = commit_diff_stats(commits)
    /\ pc' = "commits_folded"
    /\ UNCHANGED <<commits, prs, issues, report_granularity, raw_pr_stats, commit_stats, pr_stats>>
    /\ UNCHANGED <<snapVars, addVars, roleVars, moreVars>>

\* raw_file_stats = file_count_stats(path): one record per commit, in the order
\* of iter_commits, with the date of the commit and the numbers of production
\* and test files of its tree
FileCountStats ==
    /\ pc = "commits_folded"
    /\ raw_file_stats' = file_count_stats(commits)
    /\ pc' = "files_counted"
    /\ UNCHANGED <<file_snapshots, granularity, commits, prs, issues, report_granularity,
                   raw_commits, raw_pr_stats,
                   commit_stats, pr_stats>>
    /\ UNCHANGED <<addVars, roleVars, moreVars>>

\* raw_pr_stats = pr_diff_stats(prs)
PrDiffStats ==
    /\ pc = "files_counted"
    /\ raw_pr_stats' = pr_diff_stats(prs)
    /\ pc' = "prs_folded"
    /\ UNCHANGED <<commits, prs, issues, report_granularity, raw_commits, commit_stats, pr_stats>>
    /\ UNCHANGED <<snapVars, addVars, roleVars, moreVars>>

\* the aggregation by granularity (the two diff series first, the file
\* snapshots last) and the formatting of the two series; a ValueError of an
\* aggregation leaves analyze_tests_github without a result
AggregateAndFormat ==
    /\ pc = "prs_folded"
    /\ LET agg_commits == IF report_granularity = "monthly"
                          THEN aggregate_stats_monthly(raw_commits)
                          ELSE aggregate_stats_yearly(raw_commits)
           agg_prs     == IF report_granularity = "monthly"
                          THEN aggregate_stats_monthly(raw_pr_stats)
                          ELSE aggregate_stats_yearly(raw_pr_stats)
       IN  IF agg_commits.raised \/ agg_prs.raised
           THEN /\ pc' = "raised"
                /\ UNCHANGED <<commit_stats, pr_stats, file_snapshots, granularity>>
           ELSE /\ pc' = "returned"
                /\ file_snapshots' = IF report_granularity = "monthly"
                                     THEN aggregate_snapshots_monthly(raw_file_stats)
                                     ELSE aggregate_snapshots_yearly(raw_file_stats)
                /\ granularity' = report_granularity
                /\ commit_stats' = FormatSeries(agg_commits.value)
                /\ pr_stats' = FormatSeries(agg_prs.value)
    /\ UNCHANGED <<commits, prs, issues, report_granularity, raw_commits, raw_pr_stats>>
    /\ UNCHANGED <<raw_file_stats, addVars, roleVars, moreVars>>

NextReport == CommitDiffStats \/ FileCountStats \/ PrDiffStats \/ AggregateAndFormat

SpecReport == InitReport /\ [][NextReport]_vars

----------------------------------------------------------------------------
\* Properties of the test density

\* value is 0.0 when code_lines is 0, and otherwise test_lines / code_lines to
\* the four decimal places the series keep: |value - test/code| <= 0.00005
IsDensityOf(value, test_lines, code_lines) ==
    IF code_lines = 0 THEN value[1] = 0
    ELSE LET diff == value[1] * code_lines - test_lines * value[2]
         IN  /\ 20000 * diff <= value[2] * code_lines
             /\ 20000 * (0 - diff) <= value[2] * code_lines

DensitiesOk(series) ==
    \A i \in 1..Len(series) :
        IsDensityOf(series[i].test_density, series[i].test_lines, series[i].code_lines)

\* C10: every test density produced (per commit, per PR, and per entry of the
\* aggregated commit and PR series) is 0.0 when code_lines is 0 and
\* test_lines / code_lines otherwise.
C10_DensityZeroWithoutCode ==
    /\ DensitiesOk(raw_commits)
    /\ DensitiesOk(raw_pr_stats)
    /\ DensitiesOk(commit_stats)
    /\ DensitiesOk(pr_stats)

----------------------------------------------------------------------------
\* parse_github_url

\* str.rstrip(chars): drops every trailing character that is one of chars
RECURSIVE rstrip(_, _)
rstrip(s, chars) ==
    IF s # <<>> /\ (\E i \in 1..Len(chars) : chars[i] = s[Len(s)])
    THEN rstrip(SubSeq(s, 1, Len(s) - 1), chars)
    ELSE s

\* str.split(sep): the pieces between the occurrences of sep, left to right
RECURSIVE split(_, _)
split(s, sep) ==
    LET hits == {i \in 1..(Len(s) - Len(sep) + 1) : SubSeq(s, i, i + Len(sep) - 1) = sep}
    IN  IF hits = {} THEN <<s>>
        ELSE LET i == CHOOSE x \in hits : \A y \in hits : x <= y
             IN  <<SubSeq(s, 1, i - 1)>> \o split(SubSeq(s, i + Len(sep), Len(s)), sep)

DOT_GIT == <<".", "g", "i", "t">>
GITHUB_COM_SLASH == <<"g", "i", "t", "h", "u", "b", ".", "c", "o", "m", "/">>
SLASH == <<"/">>

parse_github_url(url) ==
    LET trimmed == rstrip(url, DOT_GIT)
        tail    == split(trimmed, GITHUB_COM_SLASH)
        parts   == split(tail[Len(tail)], SLASH)
    IN  IF Len(parts) < 2
        THEN [called |-> TRUE, raised |-> TRUE, owner |-> <<>>, repo_name |-> <<>>]
        ELSE [called |-> TRUE, raised |-> FALSE, owner |-> parts[1], repo_name |-> parts[2]]

----------------------------------------------------------------------------
\* parse_github_url applied to bounded URLs

HTTPS_GITHUB == <<"h", "t", "t", "p", "s", ":", "/", "/", "g", "i", "t", "h", "u", "b", ".", "c", "o", "m", "/">>
Owners == {<<"o">>, <<"a", "l">>, <<"p", "s", "f">>}
RepoNames == {<<"r", "e", "p", "o">>, <<"p", "y", "t", "e", "s", "t">>, <<"d", "i", "g", "i", "t">>, <<"l", "i", "b">>, <<"a", ".", "b">>, <<"f", "l", "a", "s", "k">>}
UrlSuffixes == {<<>>, DOT_GIT, SLASH}

GithubUrls ==
    {HTTPS_GITHUB \o o \o SLASH \o r \o x : o \in Owners, r \in RepoNames, x \in UrlSuffixes}
    \cup {HTTPS_GITHUB \o o : o \in Owners}

InitUrl ==
    /\ github_url \in GithubUrls
    /\ parsed = [called |-> FALSE, raised |-> FALSE, owner |-> <<>>, repo_name |-> <<>>]
    /\ BaseIdle /\ DelayIdle /\ ScanIdle /\ CloneIdle

ParseGithubUrl ==
    /\ parsed' = parse_github_url(github_url)
    /\ UNCHANGED <<github_url, baseVars, delayVars, scanVars, cloneVars>>

NextUrl == ParseGithubUrl

SpecUrl == InitUrl /\ [][NextUrl]_vars

\* C15: both https://github.com/o/r and https://github.com/o/r.git give
\* (o, r), every character of r kept, also when r ends in '.', 'g', 'i' or 't';
\* a URL with a single path component raises ValueError.
C15_OnlyGitSuffixRemoved ==
    parsed.called =>
        /\ \A o \in Owners, r \in RepoNames :
               github_url \in {HTTPS_GITHUB \o o \o SLASH \o r,
                               HTTPS_GITHUB \o o \o SLASH \o r \o DOT_GIT} =>
                   (~parsed.raised /\ parsed.owner = o /\ parsed.repo_name = r)
        /\ \A o \in Owners : github_url = HTTPS_GITHUB \o o => parsed.raised

----------------------------------------------------------------------------
\* Python syntax trees (module ast): a node is a record with a kind; an
\* identifier is a sequence of characters; an absent name (None) is <<>>

Name(id) == [kind |-> "Name", id |-> id]
Attribute(value, attr) == [kind |-> "Attribute", value |-> value, attr |-> attr]
Constant == [kind |-> "Constant"]
keyword(arg, value) == [arg |-> arg, value |-> value]
Call(func, args, keywords) ==
    [kind |-> "Call", func |-> func, args |-> args, keywords |-> keywords]
alias(name, asname) == [name |-> name, asname |-> asname]
Import(names) == [kind |-> "Import", names |-> names]
ImportFrom(module, names) == [kind |-> "ImportFrom", module |-> module, names |-> names]
Assign(targets, value) == [kind |-> "Assign", targets |-> targets, value |-> value]
Expr(value) == [kind |-> "Expr", value |-> value]
NoValue == [kind |-> "None"]
Return(value) == [kind |-> "Return", value |-> value]
Pass == [kind |-> "Pass"]
AssertStmt(test) == [kind |-> "Assert", test |-> test]
If(test, body) == [kind |-> "If", test |-> test, body |-> body]
FunctionDef(name, args, body) ==
    [kind |-> "FunctionDef", name |-> name, args |-> args, body |-> body]
AsyncFunctionDef(name, args, body) ==
    [kind |-> "AsyncFunctionDef", name |-> name, args |-> args, body |-> body]
ClassDef(name, body) == [kind |-> "ClassDef", name |-> name, body |-> body]
Module(body) == [kind |-> "Module", body |-> body]

IsFunction(node) == node.kind \in {"FunctionDef", "AsyncFunctionDef"}

\* ast.iter_child_nodes, restricted to the node kinds the analyzers look at
iter_child_nodes(node) ==
    CASE node.kind \in {"Module", "FunctionDef", "AsyncFunctionDef", "ClassDef"} -> node.body
      [] node.kind = "Assign" -> node.targets \o <<node.value>>
      [] node.kind = "Expr" -> <<node.value>>
      [] node.kind = "Return" -> IF node.value = NoValue THEN <<>> ELSE <<node.value>>
      [] node.kind = "Assert" -> <<node.test>>
      [] node.kind = "If" -> <<node.test>> \o node.body
      [] node.kind = "Attribute" -> <<node.value>>
      [] node.kind = "Call" ->
            <<node.func>> \o node.args
                \o [i \in 1..Len(node.keywords) |-> node.keywords[i].value]
      [] OTHER -> <<>>

\* ast.walk(tree): the node and all its descendants, each exactly once (the
\* analyzers only count, so the order of the visit does not matter)
RECURSIVE walk(_)
RECURSIVE WalkEach(_)
walk(node) == <<node>> \o WalkEach(iter_child_nodes(node))
WalkEach(nodes) ==
    IF nodes = <<>> THEN <<>> ELSE walk(Head(nodes)) \o WalkEach(Tail(nodes))

\* how many entries of a sequence of booleans are true
Count(flags) == Cardinality({i \in 1..Len(flags) : flags[i]})

----------------------------------------------------------------------------
\* The files an analyzer meets under repo_path. A file is [rel, state, tree]:
\* its path relative to repo_path, whether it can be read and parsed, and its
\* syntax tree; where an analyzer reads the text itself, the file has it as src. open() raises OSError on an "unreadable" file, read() raises
\* UnicodeDecodeError on an "undecodable" one, ast.parse raises SyntaxError on a
\* "malformed" one.

ErrorOf(file) ==
    CASE file.state = "unreadable" -> "OSError"
      [] file.state = "undecodable" -> "UnicodeDecodeError"
      [] file.state = "malformed" -> "SyntaxError"
      [] OTHER -> "none"

\* for root, _, files in os.walk(repo_path): ... os.path.join(root, fname)
FullPath(repo, file) == join(repo, file.rel)

\* fname.endswith(".py") and is_test_file(os.path.join(root, fname))
IsScanned(repo, file) ==
    endswith(basename(file.rel), DOT_PY) /\ is_test_file(FullPath(repo, file))

----------------------------------------------------------------------------
\* detect_test_doubles (the second definition of the module, the one in force)

_MOCK_CREATORS == {<<"m", "o", "c", "k">>,
                   <<"m", "a", "g", "i", "c", "m", "o", "c", "k">>,
                   <<"a", "s", "y", "n", "c", "t", "e", "s", "t", "m", "o", "c", "k">>,
                   <<"a", "s", "y", "n", "c", "t", "e", "s", "t", "m", "a", "g", "i", "c", "m", "o", "c", "k">>,
                   <<"a", "s", "y", "n", "c", "m", "o", "c", "k">>,
                   <<"a", "u", "t", "o", "s", "p", "e", "c">>,
                   <<"c", "r", "e", "a", "t", "e", "_", "a", "u", "t", "o", "s", "p", "e", "c">>,
                   <<"p", "a", "t", "c", "h">>}
_FAKE_MARKERS == {<<"f", "a", "k", "e">>}
_STUB_MARKERS == {<<"s", "t", "u", "b">>}
_DUMMY_MARKERS == {<<"d", "u", "m", "m", "y">>, <<"p", "l", "a", "c", "e", "h", "o", "l", "d", "e", "r">>, <<"u", "n", "u", "s", "e", "d">>}
PATCH == <<"p", "a", "t", "c", "h">>
WRAPS == <<"w", "r", "a", "p", "s">>
MOCK_MODULES == {<<"u", "n", "i", "t", "t", "e", "s", "t", ".", "m", "o", "c", "k">>, <<"m", "o", "c", "k">>}

_name(node) ==
    IF node.kind = "Name" THEN lower(node.id)
    ELSE IF node.kind = "Attribute" THEN lower(node.attr)
    ELSE <<>>

\* any(marker in text for marker in markers)
AnyMarker(text, markers) == \E marker \in markers : contains(text, marker)

_has_constant_return_lenient(body) ==
    \A i \in 1..Len(body) : body[i].kind = "Return" => body[i].value.kind = "Constant"

RECURSIVE _has_constant_return(_)
_has_constant_return(body) ==
    IF body = <<>> THEN TRUE
    ELSE LET stmt == Head(body)
         IN  IF stmt.kind = "Return"
             THEN IF stmt.value.kind # "Constant" THEN FALSE
                  ELSE _has_constant_return(Tail(body))
             ELSE IF stmt.kind \in {"FunctionDef", "AsyncFunctionDef", "ClassDef"}
             THEN _has_constant_return(Tail(body))
             ELSE IF stmt.kind = "Pass" THEN _has_constant_return(Tail(body))
             ELSE FALSE

\* alias_map[alias.asname or alias.name] = alias.name.lower(), for each alias
RECURSIVE BindAliases(_, _)
BindAliases(alias_map, names) ==
    IF names = <<>> THEN alias_map
    ELSE LET a   == Head(names)
             key == IF a.asname # <<>> THEN a.asname ELSE a.name
         IN  BindAliases(DictSet(alias_map, key, lower(a.name)), Tail(names))

\* the aliases of an "import ..." statement whose module is a mocking module
RECURSIVE MockingAliases(_)
MockingAliases(names) ==
    IF names = <<>> THEN <<>>
    ELSE (IF lower(Head(names).name) \in MOCK_MODULES THEN <<Head(names)>> ELSE <<>>)
             \o MockingAliases(Tail(names))

RECURSIVE AliasImports(_, _)
AliasImports(alias_map, body) ==
    IF body = <<>> THEN alias_map
    ELSE LET node == Head(body)
             next == IF node.kind = "ImportFrom"
                     THEN IF lower(node.module) \in MOCK_MODULES
                          THEN BindAliases(alias_map, node.names)
                          ELSE alias_map
                     ELSE IF node.kind = "Import"
                     THEN BindAliases(alias_map, MockingAliases(node.names))
                     ELSE alias_map
         IN  AliasImports(next, Tail(body))

_count_alias_imports(tree) == AliasImports(<<>>, tree.body)

\* any(isinstance(kw.arg, str) and kw.arg.lower() == "wraps" for kw in keywords)
has_wraps_kw(keywords) ==
    \E i \in 1..Len(keywords) : lower(keywords[i].arg) = WRAPS

\* the counter a creator call adds to: "spies", "mocks", or "none"
CreatorCounter(callee_name, keywords) ==
    IF callee_name \in _MOCK_CREATORS
    THEN IF startswith(callee_name, PATCH)
         THEN IF has_wraps_kw(keywords) THEN "spies" ELSE "mocks"
         ELSE "mocks"
    ELSE "none"

\* the if isinstance(node, ast.Call) block of the first loop
CallCounter(node, alias_map) ==
    IF node.kind # "Call" THEN "none"
    ELSE IF /\ node.func.kind = "Attribute"
            /\ node.func.value.kind = "Name"
            /\ node.func.value.id \in DOMAIN alias_map
            /\ alias_map[node.func.value.id] \in MOCK_MODULES
    THEN "mocks"
    ELSE CreatorCounter(_name(node.func), node.keywords)

\* the if isinstance(node, ast.Assign) and isinstance(node.value, ast.Call) block
AssignCounter(node) ==
    IF node.kind = "Assign" /\ node.value.kind = "Call"
    THEN CreatorCounter(_name(node.value.func), node.value.keywords)
    ELSE "none"

\* the dummy-variable test, which sits inside that same block
AssignDummies(node) ==
    IF node.kind = "Assign" /\ node.value.kind = "Call"
    THEN IF node.value.kind = "Constant"
         THEN Count([j \in 1..Len(node.targets) |->
                        /\ node.targets[j].kind = "Name"
                        /\ AnyMarker(lower(node.targets[j].id), _DUMMY_MARKERS)])
         ELSE 0
    ELSE 0

IsFake(node) ==
    /\ node.kind = "ClassDef"
    /\ AnyMarker(lower(node.name), _FAKE_MARKERS)
    /\ \E i \in 1..Len(node.body) :
           /\ node.body[i].kind = "FunctionDef"
           /\ ~(\A j \in 1..Len(node.body[i].body) : node.body[i].body[j].kind = "Pass")

IsStub(node) ==
    /\ IsFunction(node)
    /\ AnyMarker(lower(node.name), _STUB_MARKERS)
    /\ _has_constant_return(node.body)

\* for arg in node.args.args: a marker in arg.arg.lower()
ArgDummies(node) ==
    IF IsFunction(node)
    THEN Count([j \in 1..Len(node.args) |->
                   AnyMarker(lower(node.args[j]), _DUMMY_MARKERS)])
    ELSE 0

RECURSIVE SumOf(_)
SumOf(numbers) == IF numbers = <<>> THEN 0 ELSE Head(numbers) + SumOf(Tail(numbers))

\* what one parsed file adds to the counters
FileDoubles(tree) ==
    LET nodes     == walk(tree)
        alias_map == _count_alias_imports(tree)
        Adds(key) == Count([i \in 1..Len(nodes) |-> CallCounter(nodes[i], alias_map) = key])
                     + Count([i \in 1..Len(nodes) |-> AssignCounter(nodes[i]) = key])
    IN  [mocks   |-> Adds("mocks"),
         spies   |-> Adds("spies"),
         stubs   |-> Count([i \in 1..Len(nodes) |-> IsStub(nodes[i])]),
         fakes   |-> Count([i \in 1..Len(nodes) |-> IsFake(nodes[i])]),
         dummies |-> SumOf([i \in 1..Len(nodes) |-> AssignDummies(nodes[i])])
                     + SumOf([i \in 1..Len(nodes) |-> ArgDummies(nodes[i])])]

NoDoubles == [mocks |-> 0, spies |-> 0, stubs |-> 0, fakes |-> 0, dummies |-> 0]

AddDoubles(a, b) ==
    [mocks |-> a.mocks + b.mocks, spies |-> a.spies + b.spies,
     stubs |-> a.stubs + b.stubs, fakes |-> a.fakes + b.fakes,
     dummies |-> a.dummies + b.dummies]

\* except (UnicodeDecodeError, SyntaxError): continue; any other error leaves
\* the function
RECURSIVE ScanDoubles(_, _, _)
ScanDoubles(repo, files, counters) ==
    IF files = <<>> THEN [raised |-> "none", counts |-> counters]
    ELSE LET file == Head(files)
         IN  IF ~IsScanned(repo, file) THEN ScanDoubles(repo, Tail(files), counters)
             ELSE IF ErrorOf(file) \in {"UnicodeDecodeError", "SyntaxError"}
             THEN ScanDoubles(repo, Tail(files), counters)
             ELSE IF ErrorOf(file) # "none"
             THEN [raised |-> ErrorOf(file), counts |-> counters]
             ELSE ScanDoubles(repo, Tail(files),
                              AddDoubles(counters, FileDoubles(file.tree)))

detect_test_doubles(repo, files) == ScanDoubles(repo, files, NoDoubles)

DetectTestDoubles ==
    /\ analyzer' = "detect_test_doubles"
    /\ outcome' = detect_test_doubles(scan_root, worktree)
    /\ UNCHANGED <<worktree, scan_root, baseVars, urlVars, delayVars, cloneVars>>

----------------------------------------------------------------------------
\* detect_test_doubles on files that call patch(...)

ScanRoot == <<"/", "t", "m", "p", "/", "t", "m", "p", "x">>
MaxStmts == 2

PatchPlain == Call(Name(<<"p", "a", "t", "c", "h">>), <<Constant>>, <<>>)
PatchWraps == Call(Name(<<"p", "a", "t", "c", "h">>), <<Constant>>, <<keyword(<<"w", "r", "a", "p", "s">>, Name(<<"o">>))>>)
PatchWrapsUpper == Call(Name(<<"p", "a", "t", "c", "h">>), <<Constant>>, <<keyword(<<"W", "r", "a", "p", "s">>, Name(<<"o">>))>>)

PatchStmts ==
    {Expr(PatchPlain), Expr(PatchWraps), Expr(PatchWrapsUpper),
     Assign(<<Name(<<"m">>)>>, PatchPlain),
     Assign(<<Name(<<"s">>)>>, PatchWraps),
     Expr(Call(Name(<<"r", "u", "n">>), <<PatchPlain>>, <<>>)),
     Expr(Call(Attribute(Name(<<"m", "o", "c", "k">>), <<"p", "a", "t", "c", "h">>), <<Constant>>, <<>>)),
     FunctionDef(<<"t", "e", "s", "t", "_", "a">>, <<>>, <<Expr(PatchPlain)>>),
     Expr(Call(Name(<<"r", "u", "n">>), <<>>, <<>>))}

TestFileNames == {<<"t", "e", "s", "t", "s", "/", "t", "e", "s", "t", "_", "a", ".", "p", "y">>, <<"t", "e", "s", "t", "s", "/", "u", "n", "i", "t", "/", "a", "_", "t", "e", "s", "t", ".", "p", "y">>}

\* one readable test file under ScanRoot whose body is drawn from stmts
OneTestFile(stmts) ==
    /\ scan_root = ScanRoot
    /\ \E rel \in TestFileNames, body \in SeqsUpTo(stmts, MaxStmts) :
           worktree = <<[rel |-> rel, state |-> "ok", tree |-> Module(body)]>>
    /\ analyzer = "none"
    /\ outcome = [raised |-> "none", counts |-> <<>>]
    /\ BaseIdle /\ UrlIdle /\ DelayIdle /\ CloneIdle

InitPatch == OneTestFile(PatchStmts)

NextPatch == DetectTestDoubles

SpecPatch == InitPatch /\ [][NextPatch]_vars

\* the calls of patch in a tree, with or without a wraps keyword
PatchCalls(tree, wraps) ==
    LET nodes == walk(tree)
    IN  Cardinality({i \in 1..Len(nodes) :
            /\ nodes[i].kind = "Call"
            /\ _name(nodes[i].func) = PATCH
            /\ has_wraps_kw(nodes[i].keywords) = wraps})

DoublesDone == analyzer = "detect_test_doubles"

\* C11: every call of patch in a test file counts exactly once, as a spy when
\* it has a wraps keyword (any letter case) and as a mock otherwise, wherever
\* the call stands, the right-hand side of an assignment included.
C11_PatchCountsOnce ==
    DoublesDone =>
        /\ outcome.raised = "none"
        /\ outcome.counts.mocks = PatchCalls(worktree[1].tree, FALSE)
        /\ outcome.counts.spies = PatchCalls(worktree[1].tree, TRUE)

----------------------------------------------------------------------------
\* compute_test_delay. A commit is [committed_date, files]: its timestamp, in
\* hours, and the paths of commit.stats.files in the order the dict yields them.
\* prod_dates and test_dates are dicts; a sequence of [path, date] entries keeps
\* their insertion order. A date is a naive local datetime, counted in hours
\* of wall-clock time.

\* the offset of local time from UTC, in hours, at an instant: a zone has one
\* offset before the instant changes_at and one from it on
utcoffset(zone, timestamp) ==
    IF timestamp < zone.changes_at THEN zone.before ELSE zone.after

\* datetime.fromtimestamp(commit.committed_date): the wall-clock time of the
\* process's time zone at the instant
fromtimestamp(timestamp) == timestamp + utcoffset(local_zone, timestamp)

HasKey(entries, fpath) == \E i \in 1..Len(entries) : entries[i].path = fpath

\* dict.setdefault(path, date)
setdefault_overwrite(entries, fpath, date) ==
    IF HasKey(entries, fpath)
    THEN [i \in 1..Len(entries) |->
             IF entries[i].path = fpath THEN [path |-> fpath, date |-> date]
             ELSE entries[i]]
    ELSE Append(entries, [path |-> fpath, date |-> date])

setdefault(entries, fpath, date) ==
    IF HasKey(entries, fpath) THEN entries
    ELSE Append(entries, [path |-> fpath, date |-> date])

\* the two dicts as one value, to thread them through the loops
RECURSIVE RecordFiles(_, _, _)
RecordFiles(files, date, dicts) ==
    IF files = <<>> THEN dicts
    ELSE LET fpath == Head(files)
             prod  == IF endswith(fpath, DOT_PY) /\ ~is_test_file(fpath)
                      THEN setdefault(dicts.prod_dates, fpath, date)
                      ELSE dicts.prod_dates
             test  == IF is_test_file(fpath)
                      THEN setdefault(dicts.test_dates, fpath, date)
                      ELSE dicts.test_dates
         IN  RecordFiles(Tail(files), date, [prod_dates |-> prod, test_dates |-> test])

RECURSIVE RecordCommits(_, _)
RecordCommits(commit_list, dicts) ==
    IF commit_list = <<>> THEN dicts
    ELSE RecordCommits(Tail(commit_list),
                       RecordFiles(Head(commit_list).files,
                                   fromtimestamp(Head(commit_list).committed_date), dicts))

\* base.startswith("test_") / base.endswith("_test.py")
HasTestName(base) == startswith(base, TEST_) \/ endswith(base, UNDER_TEST_PY)

\* base[len("test_"):]  /  base[:-len("_test.py")] + ".py"
prod_name(base) ==
    IF startswith(base, TEST_) THEN SubSeq(base, Len(TEST_) + 1, Len(base))
    ELSE SubSeq(base, 1, Len(base) - Len(UNDER_TEST_PY)) \o DOT_PY

\* (tdate - pdate).days: the difference of two naive datetimes is the
\* difference of their wall-clock times, and timedelta.days is its floor in days
days(tdate, pdate) == (tdate - pdate) \div 24

\* if delta >= 0
KeepsDelay_always(delta) == TRUE
KeepsDelay(delta) == delta >= 0

\* for ppath, pdate in prod_dates.items(): the first entry whose basename is
\* prod_name decides, and the loop breaks
RECURSIVE MatchProd_skipNegative(_, _, _)
MatchProd_skipNegative(prod_dates, wanted, tdate) ==
    IF prod_dates = <<>> THEN <<>>
    ELSE IF /\ basename(Head(prod_dates).path) = wanted
            /\ days(tdate, Head(prod_dates).date) >= 0
    THEN <<days(tdate, Head(prod_dates).date)>>
    ELSE MatchProd_skipNegative(Tail(prod_dates), wanted, tdate)

RECURSIVE MatchProd(_, _, _)
MatchProd(prod_dates, wanted, tdate) ==
    IF prod_dates = <<>> THEN <<>>
    ELSE IF basename(Head(prod_dates).path) = wanted
    THEN LET delta == days(tdate, Head(prod_dates).date)
         IN  IF KeepsDelay(delta) THEN <<delta>> ELSE <<>>
    ELSE MatchProd(Tail(prod_dates), wanted, tdate)

RECURSIVE CollectDelays(_, _)
CollectDelays(test_dates, prod_dates) ==
    IF test_dates = <<>> THEN <<>>
    ELSE LET base == basename(Head(test_dates).path)
         IN  (IF HasTestName(base)
              THEN MatchProd(prod_dates, prod_name(base), Head(test_dates).date)
              ELSE <<>>) \o CollectDelays(Tail(test_dates), prod_dates)

\* None, for avg_delay_days
NoAvg == <<0, 0>>

\* round(total / n, 2) as the fraction k / 100
Round2(total, n) == Ratio(RoundQuotient(total, n, 100), 100)

\* prod_dates = {}; test_dates = {}
NoDates == [prod_dates |-> <<>>, test_dates |-> <<>>]

\* the second loop and the return statement, from the two dicts
DelaysOf(dicts) ==
    LET delays == CollectDelays(dicts.test_dates, dicts.prod_dates)
    IN  [called |-> TRUE,
         avg_delay_days |-> IF delays # <<>> THEN Round2(SumOf(delays), Len(delays))
                            ELSE NoAvg,
         delay_count |-> Len(delays)]

compute_test_delay(commit_list) == DelaysOf(RecordCommits(commit_list, NoDates))

----------------------------------------------------------------------------
\* compute_test_delay on bounded commit logs

MaxCommits == 2

\* 2021-01-01 00:00 is hour 0; hour 240 is 2021-01-11 00:00
CommitHours == {0, 12, 240}

CommitFileLists ==
    {<<<<"f", "o", "o", ".", "p", "y">>>>,
     <<<<"t", "e", "s", "t", "_", "f", "o", "o", ".", "p", "y">>>>,
     <<<<"t", "e", "s", "t", "s", "/", "f", "o", "o", "_", "t", "e", "s", "t", ".", "p", "y">>>>,
     <<<<"f", "o", "o", ".", "p", "y">>, <<"t", "e", "s", "t", "_", "f", "o", "o", ".", "p", "y">>>>,
     <<<<"f", "o", "o", ".", "p", "y">>, <<"t", "e", "s", "t", "_", "b", "a", "r", ".", "p", "y">>>>,
     <<<<"t", "e", "s", "t", "_", "f", "o", "o", ".", "p", "y">>, <<"b", "a", "r", ".", "p", "y">>>>,
     <<<<"t", "e", "s", "t", "s", "/", "t", "e", "s", "t", "_", "f", "o", "o", ".", "p", "y">>, <<"t", "e", "s", "t", "s", "/", "f", "o", "o", "_", "t", "e", "s", "t", ".", "p", "y">>>>,
     <<<<"s", "r", "c", "/", "f", "o", "o", ".", "p", "y">>, <<"l", "i", "b", "/", "f", "o", "o", ".", "p", "y">>>>,
     <<<<"R", "E", "A", "D", "M", "E", ".", "m", "d">>>>,
     <<<<"t", "e", "s", "t", "s", "/", "h", "e", "l", "p", "e", "r", "s", ".", "p", "y">>, <<"b", "a", "r", "_", "t", "e", "s", "t", ".", "p", "y">>>>}

GitCommits == [committed_date : CommitHours, files : CommitFileLists]

\* UTC, a zone that puts its clocks back an hour at hour 100 (the end of summer
\* time) and a zone that puts them forward an hour then
Zones ==
    {[changes_at |-> 0, before |-> 0, after |-> 0],
     [changes_at |-> 100, before |-> 1, after |-> 0],
     [changes_at |-> 100, before |-> 0, after |-> 1]}

InitDelay ==
    /\ git_log \in SeqsUpTo(GitCommits, MaxCommits)
    /\ local_zone \in Zones
    /\ delay_result = [called |-> FALSE, avg_delay_days |-> <<0, 1>>, delay_count |-> 0]
    /\ first_seen = NoDates
    /\ walked = 0
    /\ BaseIdle /\ UrlIdle /\ ScanIdle /\ CloneIdle

ComputeTestDelay ==
    /\ first_seen' = RecordCommits(git_log, NoDates)
    /\ walked' = Len(git_log)
    /\ delay_result' = compute_test_delay(git_log)
    /\ UNCHANGED <<git_log, local_zone, baseVars, urlVars, scanVars, cloneVars>>

NextDelay == ComputeTestDelay

SpecDelay == InitDelay /\ [][NextDelay]_vars

\* the paths of the log, the place where each is first seen, its first date
LogPaths ==
    UNION {{git_log[i].files[j] : j \in 1..Len(git_log[i].files)} : i \in 1..Len(git_log)}

FirstCommit(p) ==
    CHOOSE i \in 1..Len(git_log) :
        /\ \E j \in 1..Len(git_log[i].files) : git_log[i].files[j] = p
        /\ \A k \in 1..(i - 1) : \A j \in 1..Len(git_log[k].files) : git_log[k].files[j] # p

PlaceIn(p, i) == CHOOSE j \in 1..Len(git_log[i].files) : git_log[i].files[j] = p

SeenBefore(p, q) ==
    \/ FirstCommit(p) < FirstCommit(q)
    \/ FirstCommit(p) = FirstCommit(q)
       /\ PlaceIn(p, FirstCommit(p)) < PlaceIn(q, FirstCommit(q))

\* the local date of the first commit with the path
FirstDate(p) == fromtimestamp(git_log[FirstCommit(p)].committed_date)

\* test_<name>.py or <name>_test.py beside <name>.py
PairsWith(t, p) ==
    LET tb == basename(t)
        pb == basename(p)
    IN  \/ tb = TEST_ \o pb
        \/ /\ endswith(pb, DOT_PY)
           /\ tb = SubSeq(pb, 1, Len(pb) - Len(DOT_PY)) \o UNDER_TEST_PY

Candidates(t) ==
    {p \in LogPaths : endswith(p, DOT_PY) /\ ~is_test_file(p) /\ PairsWith(t, p)}

Partner(t) ==
    CHOOSE p \in Candidates(t) : \A q \in Candidates(t) : q = p \/ SeenBefore(p, q)

PairedTests == {t \in LogPaths : is_test_file(t) /\ Candidates(t) # {}}

\* the pairs whose test file is not older than its production file
CountedTests == {t \in PairedTests : FirstDate(t) >= FirstDate(Partner(t))}

WholeDays(t) == (FirstDate(t) - FirstDate(Partner(t))) \div 24

RECURSIVE TotalDays(_)
TotalDays(tests) ==
    IF tests = {} THEN 0
    ELSE LET t == CHOOSE x \in tests : TRUE
         IN  WholeDays(t) + TotalDays(tests \ {t})

DelayDone == delay_result.called

\* avg is a number of hundredths, and no other number of hundredths is nearer
\* to total / n
NearestHundredth(avg, total, n) ==
    /\ avg[2] \in {1, 2, 4, 5, 10, 20, 25, 50, 100}
    /\ LET h    == avg[1] * (100 \div avg[2])
           diff == h * n - 100 * total
       IN  2 * diff <= n /\ 2 * diff >= 0 - n

\* C13: a test file test_<name>.py or <name>_test.py is paired with the
\* production file <name>.py; the delay is the whole days between their first
\* commit dates; a pair whose test is the older one is left out of the count and
\* of the average; the average is rounded to two decimals.
C13_DelayPairsWholeDays ==
    DelayDone =>
        /\ delay_result.delay_count = Cardinality(CountedTests)
        /\ CountedTests = {} => delay_result.avg_delay_days = NoAvg
        /\ CountedTests # {} =>
               NearestHundredth(delay_result.avg_delay_days,
                                TotalDays(CountedTests), Cardinality(CountedTests))

\* a ten-day pair is counted beside a pair whose test came first
C13_Witness ==
    /\ DelayDone
    /\ \E t \in CountedTests : WholeDays(t) = 10
    /\ PairedTests \ CountedTests # {}
    /\ delay_result.delay_count = 1
    /\ delay_result.avg_delay_days = <<10, 1>>

----------------------------------------------------------------------------
\* detect_test_doubles on files with dummy variables and dummy parameters

DummyStmts ==
    {Assign(<<Name(<<"d", "u", "m", "m", "y", "_", "v", "a", "l", "u", "e">>)>>, Constant),
     Assign(<<Name(<<"P", "L", "A", "C", "E", "H", "O", "L", "D", "E", "R">>)>>, Constant),
     Assign(<<Name(<<"x">>)>>, Constant),
     Assign(<<Name(<<"u", "n", "u", "s", "e", "d", "_", "a", "r", "g">>)>>, Call(Name(<<"m", "a", "k", "e">>), <<>>, <<>>)),
     FunctionDef(<<"f">>, <<<<"d", "u", "m", "m", "y", "_", "a", "r", "g">>>>, <<Pass>>),
     AsyncFunctionDef(<<"g">>, <<<<"U", "n", "u", "s", "e", "d">>, <<"x">>>>, <<Pass>>),
     FunctionDef(<<"h">>, <<<<"x">>>>,
                 <<Assign(<<Name(<<"d", "u", "m", "m", "y">>)>>, Constant)>>),
     Expr(Call(Name(<<"r", "u", "n">>), <<>>, <<>>))}

InitDummy == OneTestFile(DummyStmts)

NextDummy == DetectTestDoubles

SpecDummy == InitDummy /\ [][NextDummy]_vars

HasDummyName(id) == \E marker \in _DUMMY_MARKERS : contains(lower(id), marker)

\* the assignments of a literal constant to a variable with a dummy name
DummyAssignments(tree) ==
    LET nodes == walk(tree)
    IN  Cardinality({<<i, j>> \in (1..Len(nodes)) \X (1..2) :
            /\ nodes[i].kind = "Assign"
            /\ nodes[i].value.kind = "Constant"
            /\ j <= Len(nodes[i].targets)
            /\ nodes[i].targets[j].kind = "Name"
            /\ HasDummyName(nodes[i].targets[j].id)})

\* the parameters with a dummy name of the functions and coroutines
DummyParameters(tree) ==
    LET nodes == walk(tree)
    IN  Cardinality({<<i, j>> \in (1..Len(nodes)) \X (1..2) :
            /\ nodes[i].kind \in {"FunctionDef", "AsyncFunctionDef"}
            /\ j <= Len(nodes[i].args)
            /\ HasDummyName(nodes[i].args[j])})

\* C16: dummies is the number of assignments of a literal constant to a
\* variable whose name contains dummy, placeholder or unused, plus the number
\* of function and coroutine parameters with such a name; dummy_value = 0
\* alone gives dummies = 1.
C16_DummiesCounted ==
    DoublesDone =>
        outcome.counts.dummies =
            DummyAssignments(worktree[1].tree) + DummyParameters(worktree[1].tree)

----------------------------------------------------------------------------
\* detect_test_doubles on files that import the mocking module under a name

AliasStmts ==
    {Import(<<alias(<<"u", "n", "i", "t", "t", "e", "s", "t", ".", "m", "o", "c", "k">>, <<"u", "m">>)>>),
     Import(<<alias(<<"m", "o", "c", "k">>, <<"m", "k">>)>>),
     ImportFrom(<<"u", "n", "i", "t", "t", "e", "s", "t", ".", "m", "o", "c", "k">>, <<alias(<<"p", "a", "t", "c", "h">>, <<>>)>>),
     ImportFrom(<<"u", "n", "i", "t", "t", "e", "s", "t", ".", "m", "o", "c", "k">>, <<alias(<<"M", "a", "g", "i", "c", "M", "o", "c", "k">>, <<"M", "M">>)>>),
     ImportFrom(<<"m", "o", "c", "k">>, <<alias(<<"M", "o", "c", "k">>, <<"M">>)>>),
     Expr(Call(Attribute(Name(<<"u", "m">>), <<"a", "n", "y", "t", "h", "i", "n", "g">>), <<>>, <<>>)),
     Expr(Call(Attribute(Name(<<"m", "k">>), <<"p", "a", "t", "c", "h">>), <<Constant>>, <<keyword(WRAPS, Name(<<"o">>))>>)),
     Expr(Call(Attribute(Name(<<"p", "a", "t", "c", "h">>), <<"o", "b", "j", "e", "c", "t">>), <<Name(<<"T">>)>>, <<>>)),
     Expr(Call(Attribute(Name(<<"M", "M">>), <<"c", "o", "n", "f", "i", "g", "u", "r", "e">>), <<>>, <<>>)),
     Expr(Call(Attribute(Name(<<"M">>), <<"c", "o", "n", "f", "i", "g", "u", "r", "e">>), <<>>, <<>>))}

InitAlias == OneTestFile(AliasStmts)

NextAlias == DetectTestDoubles

SpecAlias == InitAlias /\ [][NextAlias]_vars

\* the local names a top-level import binds to the mocking module or to a
\* member of it: import unittest.mock as Y, import mock as Y,
\* from unittest.mock import X, from unittest.mock import X as Y
BoundNames(tree) ==
    LET binding == {k \in 1..Len(tree.body) :
                       \/ /\ tree.body[k].kind = "Import"
                          /\ lower(tree.body[k].names[1].name) \in MOCK_MODULES
                       \/ /\ tree.body[k].kind = "ImportFrom"
                          /\ lower(tree.body[k].module) \in MOCK_MODULES}
    IN  {IF tree.body[k].names[1].asname # <<>>
         THEN tree.body[k].names[1].asname
         ELSE tree.body[k].names[1].name : k \in binding}

IsCallThrough(n, names) ==
    /\ n.kind = "Call"
    /\ n.func.kind = "Attribute"
    /\ n.func.value.kind = "Name"
    /\ n.func.value.id \in names

\* C17: a call through a name that an import binds to the mocking module
\* (Y.anything(...)) adds exactly 1 to mocks, whatever the method, and nothing
\* to spies; the other calls count as creator calls do.
C17_AliasCallsAreMocks ==
    DoublesDone =>
        LET tree  == worktree[1].tree
            nodes == walk(tree)
            bound == BoundNames(tree)
            Others(key) ==
                Cardinality({i \in 1..Len(nodes) :
                    /\ nodes[i].kind = "Call"
                    /\ ~IsCallThrough(nodes[i], bound)
                    /\ CreatorCounter(_name(nodes[i].func), nodes[i].keywords) = key})
        IN  /\ outcome.counts.mocks =
                   Cardinality({i \in 1..Len(nodes) : IsCallThrough(nodes[i], bound)})
                       + Others("mocks")
            /\ outcome.counts.spies = Others("spies")

----------------------------------------------------------------------------
\* detect_test_doubles on files that define functions with fixed results

StubBodies ==
    {<<Return(Constant)>>,
     <<Return(Call(Name(<<"c", "o", "m", "p", "u", "t", "e">>), <<>>, <<>>))>>,
     <<Return(NoValue)>>,
     <<Pass>>,
     <<Pass, FunctionDef(<<"i", "n", "n", "e", "r">>, <<>>, <<Expr(Call(Name(<<"r", "u", "n">>), <<>>, <<>>))>>)>>,
     <<ClassDef(<<"K">>, <<Pass>>), Return(Constant)>>,
     <<Assign(<<Name(<<"x">>)>>, Constant), Return(Constant)>>,
     <<Expr(Call(Name(<<"r", "u", "n">>), <<>>, <<>>))>>,
     <<If(Name(<<"c">>), <<Return(Constant)>>)>>,
     <<Return(Constant), Return(Name(<<"x">>))>>}

StubNames == {<<"s", "t", "u", "b", "_", "x">>, <<"M", "y", "S", "t", "u", "b">>, <<"h", "e", "l", "p", "e", "r">>}

StubDefs ==
    {FunctionDef(n, <<>>, b) : n \in StubNames, b \in StubBodies}
    \cup {AsyncFunctionDef(n, <<>>, b) : n \in StubNames, b \in StubBodies}

\* one readable test file that holds one definition, at top level or as a method
InitStub ==
    /\ scan_root = ScanRoot
    /\ \E rel \in TestFileNames, def \in StubDefs :
           \E body \in {<<def>>, <<ClassDef(<<"T">>, <<def>>)>>} :
               worktree = <<[rel |-> rel, state |-> "ok", tree |-> Module(body)]>>
    /\ analyzer = "none"
    /\ outcome = [raised |-> "none", counts |-> <<>>]
    /\ BaseIdle /\ UrlIdle /\ DelayIdle /\ CloneIdle

NextStub == DetectTestDoubles

SpecStub == InitStub /\ [][NextStub]_vars

\* every return returns a literal constant, every other statement is a nested
\* definition or pass
BodyPasses(body) ==
    \A i \in 1..Len(body) :
        \/ body[i].kind = "Return" /\ body[i].value.kind = "Constant"
        \/ body[i].kind \in {"FunctionDef", "AsyncFunctionDef", "ClassDef", "Pass"}

NamedStub(id) == \E i \in 1..(Len(id) - 3) : lower(SubSeq(id, i, i + 3)) = <<"s", "t", "u", "b">>

\* C18: a function or coroutine counts as a stub iff its name contains stub
\* (any letter case) and its body passes the constant-return test: every return
\* returns a literal constant, every other statement is a nested def or class or
\* pass.
C18_StubIffConstantReturn ==
    DoublesDone =>
        LET nodes == walk(worktree[1].tree)
        IN  outcome.counts.stubs =
                Cardinality({i \in 1..Len(nodes) :
                    /\ nodes[i].kind \in {"FunctionDef", "AsyncFunctionDef"}
                    /\ NamedStub(nodes[i].name)
                    /\ BodyPasses(nodes[i].body)})

\* a coroutine named MyStub whose body is pass and a nested def counts as a stub
C18_Witness ==
    /\ DoublesDone
    /\ outcome.counts.stubs = 1
    /\ \E i \in 1..Len(worktree[1].tree.body) :
           /\ worktree[1].tree.body[i].kind = "AsyncFunctionDef"
           /\ worktree[1].tree.body[i].name = <<"M", "y", "S", "t", "u", "b">>
           /\ Len(worktree[1].tree.body[i].body) = 2
           /\ worktree[1].tree.body[i].body[1] = Pass

----------------------------------------------------------------------------
\* classify_test_types

frameworks == {<<"u", "n", "i", "t", "t", "e", "s", "t">>, <<"p", "y", "t", "e", "s", "t">>}
integration_libs == {<<"r", "e", "q", "u", "e", "s", "t", "s">>, <<"h", "t", "t", "p", "x">>, <<"s", "o", "c", "k", "e", "t">>, <<"d", "o", "c", "k", "e", "r">>, <<"p", "s", "y", "c", "o", "p", "g", "2">>, <<"s", "q", "l", "a", "l", "c", "h", "e", "m", "y">>}
e2e_libs == {<<"s", "e", "l", "e", "n", "i", "u", "m">>, <<"p", "l", "a", "y", "w", "r", "i", "g", "h", "t">>}
DOT == <<".">>

\* name.split(".")[0]
TopPackage(dotted) == split(dotted, DOT)[1]

\* the set imps that the walk over the tree collects
Imports(tree) ==
    LET nodes == walk(tree)
    IN  UNION {IF nodes[i].kind = "Import"
               THEN {TopPackage(nodes[i].names[j].name) : j \in 1..Len(nodes[i].names)}
               ELSE IF nodes[i].kind = "ImportFrom" /\ nodes[i].module # <<>>
               THEN {TopPackage(nodes[i].module)}
               ELSE {} : i \in 1..Len(nodes)}

\* the if / elif chain
TestType_integrationFirst(imps) ==
    IF integration_libs \cap imps # {} THEN "integration"
    ELSE IF frameworks \cap imps # {} THEN "unit"
    ELSE IF e2e_libs \cap imps # {} THEN "e2e"
    ELSE "unknown"

TestType(imps) ==
    IF frameworks \cap imps # {} THEN "unit"
    ELSE IF integration_libs \cap imps # {} THEN "integration"
    ELSE IF e2e_libs \cap imps # {} THEN "e2e"
    ELSE "unknown"

NoTypes == [unit |-> 0, integration |-> 0, e2e |-> 0, unknown |-> 0]

\* counts[key] += 1
Bump(counts, key) == [counts EXCEPT ![key] = @ + 1]

\* except Exception: continue
RECURSIVE ScanTypes(_, _, _)
ScanTypes(repo, files, counts) ==
    IF files = <<>> THEN [raised |-> "none", counts |-> counts]
    ELSE LET file == Head(files)
         IN  IF ~IsScanned(repo, file) THEN ScanTypes(repo, Tail(files), counts)
             ELSE IF ErrorOf(file) # "none" THEN ScanTypes(repo, Tail(files), counts)
             ELSE ScanTypes(repo, Tail(files),
                            Bump(counts, TestType(Imports(file.tree))))

classify_test_types(repo, files) == ScanTypes(repo, files, NoTypes)

ClassifyTestTypes ==
    /\ analyzer' = "classify_test_types"
    /\ outcome' = classify_test_types(scan_root, worktree)
    /\ UNCHANGED <<worktree, scan_root, baseVars, urlVars, delayVars, cloneVars>>

----------------------------------------------------------------------------
\* classify_test_types on small trees

MaxFiles == 2

ImportBodies ==
    {<<>>,
     <<Import(<<alias(<<"u", "n", "i", "t", "t", "e", "s", "t">>, <<>>)>>)>>,
     <<Import(<<alias(<<"o", "s">>, <<>>), alias(<<"r", "e", "q", "u", "e", "s", "t", "s">>, <<>>)>>)>>,
     <<ImportFrom(<<"s", "e", "l", "e", "n", "i", "u", "m", ".", "w", "e", "b", "d", "r", "i", "v", "e", "r">>, <<alias(<<"C", "h", "r", "o", "m", "e">>, <<>>)>>)>>,
     <<Import(<<alias(<<"o", "s", ".", "p", "a", "t", "h">>, <<>>)>>)>>,
     <<ImportFrom(<<"p", "y", "t", "e", "s", "t">>, <<alias(<<"f", "i", "x", "t", "u", "r", "e">>, <<>>)>>), Import(<<alias(<<"r", "e", "q", "u", "e", "s", "t", "s">>, <<>>)>>), Import(<<alias(<<"s", "e", "l", "e", "n", "i", "u", "m">>, <<>>)>>)>>,
     <<Import(<<alias(<<"h", "t", "t", "p", "x">>, <<>>)>>), ImportFrom(<<"p", "l", "a", "y", "w", "r", "i", "g", "h", "t", ".", "s", "y", "n", "c", "_", "a", "p", "i">>, <<alias(<<"s", "y", "n", "c", "_", "p", "l", "a", "y", "w", "r", "i", "g", "h", "t">>, <<>>)>>)>>,
     <<ImportFrom(<<>>, <<alias(<<"u", "n", "i", "t", "t", "e", "s", "t">>, <<>>)>>)>>,
     <<FunctionDef(<<"t", "e", "s", "t", "_", "a">>, <<>>, <<Import(<<alias(<<"d", "o", "c", "k", "e", "r">>, <<>>)>>)>>)>>,
     <<Import(<<alias(<<"u", "n", "i", "t", "t", "e", "s", "t", "x">>, <<>>)>>)>>}

TreeNames == {<<"t", "e", "s", "t", "s", "/", "t", "e", "s", "t", "_", "a", ".", "p", "y">>, <<"p", "k", "g", "/", "b", "_", "t", "e", "s", "t", ".", "p", "y">>, <<"s", "r", "c", "/", "c", ".", "p", "y">>}

TypedFiles ==
    {[rel |-> rel, state |-> "ok", tree |-> Module(body)] :
        rel \in TreeNames, body \in ImportBodies}
    \cup {[rel |-> rel, state |-> "malformed", tree |-> Module(<<>>)] : rel \in TreeNames}

\* no two files of a tree have the same path
DistinctPaths(files) ==
    \A i, j \in 1..Len(files) : files[i].rel = files[j].rel => i = j

InitTypes ==
    /\ scan_root = ScanRoot
    /\ worktree \in SeqsUpTo(TypedFiles, MaxFiles)
    /\ DistinctPaths(worktree)
    /\ analyzer = "none"
    /\ outcome = [raised |-> "none", counts |-> <<>>]
    /\ BaseIdle /\ UrlIdle /\ DelayIdle /\ CloneIdle

NextTypes == ClassifyTestTypes

SpecTypes == InitTypes /\ [][NextTypes]_vars

TypesDone == analyzer = "classify_test_types"

\* the test files of the tree that parse
ParsedTestFiles ==
    {i \in 1..Len(worktree) : IsScanned(scan_root, worktree[i]) /\ worktree[i].state = "ok"}

ImportsAny(i, libs) == libs \cap Imports(worktree[i].tree) # {}

\* C19: each parsed test file adds 1 to exactly one of unit, integration, e2e,
\* unknown: unit if it imports a framework, whatever else it imports; else
\* integration if it imports an integration library; else e2e if it imports an
\* e2e library; else unknown. The four counts sum to the number of such files.
C19_TypesPartition ==
    TypesDone =>
        /\ outcome.raised = "none"
        /\ outcome.counts.unit =
               Cardinality({i \in ParsedTestFiles : ImportsAny(i, frameworks)})
        /\ outcome.counts.integration =
               Cardinality({i \in ParsedTestFiles :
                   ~ImportsAny(i, frameworks) /\ ImportsAny(i, integration_libs)})
        /\ outcome.counts.e2e =
               Cardinality({i \in ParsedTestFiles :
                   /\ ~ImportsAny(i, frameworks) /\ ~ImportsAny(i, integration_libs)
                   /\ ImportsAny(i, e2e_libs)})
        /\ outcome.counts.unit + outcome.counts.integration
               + outcome.counts.e2e + outcome.counts.unknown
           = Cardinality(ParsedTestFiles)

\* a file that imports pytest, requests and selenium counts as unit only, beside
\* a file that imports httpx and playwright and counts as integration only
C19_Witness ==
    /\ TypesDone
    /\ Cardinality(ParsedTestFiles) = 2
    /\ \E i \in ParsedTestFiles :
           /\ ImportsAny(i, frameworks)
           /\ ImportsAny(i, integration_libs)
           /\ ImportsAny(i, e2e_libs)
    /\ \E i \in ParsedTestFiles :
           ~ImportsAny(i, frameworks) /\ ImportsAny(i, integration_libs)
                /\ ImportsAny(i, e2e_libs)
    /\ outcome.counts = [unit |-> 1, integration |-> 1, e2e |-> 0, unknown |-> 0]

----------------------------------------------------------------------------
\* count_test_smells

TEST == <<"t", "e", "s", "t">>
ASSERT == <<"a", "s", "s", "e", "r", "t">>
setup_names == {<<"s", "e", "t", "U", "p">>, <<"t", "e", "a", "r", "D", "o", "w", "n">>, <<"s", "e", "t", "u", "p", "_", "m", "e", "t", "h", "o", "d">>, <<"t", "e", "a", "r", "d", "o", "w", "n", "_", "m", "e", "t", "h", "o", "d">>}

\* funcs: the FunctionDef nodes whose name starts with "test"
IsTestFunc(n) == n.kind = "FunctionDef" /\ startswith(n.name, TEST)

\* an assert statement, or a call of an attribute whose name starts with "assert"
IsAssertion(n) ==
    \/ n.kind = "Assert"
    \/ n.kind = "Call" /\ n.func.kind = "Attribute" /\ startswith(n.func.attr, ASSERT)

IsSetupDef(n) == n.kind = "FunctionDef" /\ n.name \in setup_names

IsSetupCall(n) == n.kind = "Call" /\ n.func.kind = "Name" /\ n.func.id \in setup_names

\* if defs: ... if not calls
UnusedSetup_withoutDefs(nodes) ==
    Count([i \in 1..Len(nodes) |-> IsSetupCall(nodes[i])]) = 0
UnusedSetup(nodes) ==
    IF Count([i \in 1..Len(nodes) |-> IsSetupDef(nodes[i])]) # 0
    THEN Count([i \in 1..Len(nodes) |-> IsSetupCall(nodes[i])]) = 0
    ELSE FALSE

Bit(b) == IF b THEN 1 ELSE 0

\* what one parsed file adds to the three counters
FileSmells(tree) ==
    LET nodes == walk(tree)
    IN  [empty_tests  |-> Bit(Count([i \in 1..Len(nodes) |-> IsTestFunc(nodes[i])]) = 0),
         no_assert    |-> Bit(Count([i \in 1..Len(nodes) |-> IsAssertion(nodes[i])]) = 0),
         unused_setup |-> Bit(UnusedSetup(nodes))]

NoSmells == [empty_tests |-> 0, no_assert |-> 0, unused_setup |-> 0]

AddSmells(a, b) ==
    [empty_tests  |-> a.empty_tests + b.empty_tests,
     no_assert    |-> a.no_assert + b.no_assert,
     unused_setup |-> a.unused_setup + b.unused_setup]

\* except (SyntaxError, UnicodeDecodeError): continue; any other error leaves
\* the function
RECURSIVE ScanSmells(_, _, _)
ScanSmells(repo, files, smells) ==
    IF files = <<>> THEN [raised |-> "none", counts |-> smells]
    ELSE LET file == Head(files)
         IN  IF ~IsScanned(repo, file) THEN ScanSmells(repo, Tail(files), smells)
             ELSE IF ErrorOf(file) \in {"SyntaxError", "UnicodeDecodeError"}
             THEN ScanSmells(repo, Tail(files), smells)
             ELSE IF ErrorOf(file) # "none"
             THEN [raised |-> ErrorOf(file), counts |-> smells]
             ELSE ScanSmells(repo, Tail(files), AddSmells(smells, FileSmells(file.tree)))

count_test_smells(repo, files) == ScanSmells(repo, files, NoSmells)

CountTestSmells ==
    /\ analyzer' = "count_test_smells"
    /\ outcome' = count_test_smells(scan_root, worktree)
    /\ UNCHANGED <<worktree, scan_root, baseVars, urlVars, delayVars, cloneVars>>

----------------------------------------------------------------------------
\* count_test_smells on one test file

SmellStmts ==
    {FunctionDef(<<"t", "e", "s", "t", "_", "a">>, <<>>, <<AssertStmt(Name(<<"o", "k">>))>>),
     FunctionDef(<<"t", "e", "s", "t", "_", "b">>, <<>>, <<Pass>>),
     AsyncFunctionDef(<<"t", "e", "s", "t", "_", "c">>, <<>>, <<Pass>>),
     FunctionDef(<<"h", "e", "l", "p", "e", "r">>, <<>>, <<Expr(Call(Attribute(Name(<<"s", "e", "l", "f">>), <<"a", "s", "s", "e", "r", "t", "E", "q", "u", "a", "l">>), <<Constant, Constant>>, <<>>))>>),
     FunctionDef(<<"s", "e", "t", "U", "p">>, <<>>, <<Pass>>),
     FunctionDef(<<"t", "e", "a", "r", "d", "o", "w", "n", "_", "m", "e", "t", "h", "o", "d">>, <<>>, <<Pass>>),
     Expr(Call(Name(<<"s", "e", "t", "U", "p">>), <<>>, <<>>)),
     Expr(Call(Attribute(Name(<<"s", "e", "l", "f">>), <<"s", "e", "t", "U", "p">>), <<>>, <<>>)),
     ClassDef(<<"T", "e", "s", "t", "X">>, <<FunctionDef(<<"t", "e", "a", "r", "D", "o", "w", "n">>, <<>>, <<Pass>>),
                        FunctionDef(<<"t", "e", "s", "t", "_", "m">>, <<>>, <<Expr(Call(Attribute(Name(<<"s", "e", "l", "f">>), <<"a", "s", "s", "e", "r", "t", "T", "r", "u", "e">>), <<Constant>>, <<>>))>>)>>)}

InitSmells == OneTestFile(SmellStmts)

NextSmells == CountTestSmells

SpecSmells == InitSmells /\ [][NextSmells]_vars

SmellsDone == analyzer = "count_test_smells"

\* the conditions of the three smells, on the nodes of the file
DefinesTest(nodes) ==
    \E i \in 1..Len(nodes) :
        /\ nodes[i].kind = "FunctionDef"
        /\ Len(nodes[i].name) >= Len(TEST)
        /\ \A k \in 1..Len(TEST) : nodes[i].name[k] = TEST[k]

Asserts(nodes) ==
    \E i \in 1..Len(nodes) :
        \/ nodes[i].kind = "Assert"
        \/ /\ nodes[i].kind = "Call"
           /\ nodes[i].func.kind = "Attribute"
           /\ Len(nodes[i].func.attr) >= Len(ASSERT)
           /\ \A k \in 1..Len(ASSERT) : nodes[i].func.attr[k] = ASSERT[k]

DefinesSetup(nodes) ==
    \E i \in 1..Len(nodes) : nodes[i].kind = "FunctionDef" /\ nodes[i].name \in setup_names

CallsSetup(nodes) ==
    \E i \in 1..Len(nodes) :
        nodes[i].kind = "Call" /\ nodes[i].func.kind = "Name"
            /\ nodes[i].func.id \in setup_names

\* C20: for a parsed test file each of empty_tests, no_assert, unused_setup
\* goes up by exactly 1 iff its own condition holds, whatever the other two do;
\* unused_setup iff the file defines setUp, tearDown, setup_method or
\* teardown_method and calls none of those names directly, never for a file
\* that defines none of them.
C20_SmellsIndependent ==
    SmellsDone =>
        LET nodes == walk(worktree[1].tree)
        IN  /\ outcome.raised = "none"
            /\ outcome.counts.empty_tests = (IF DefinesTest(nodes) THEN 0 ELSE 1)
            /\ outcome.counts.no_assert = (IF Asserts(nodes) THEN 0 ELSE 1)
            /\ outcome.counts.unused_setup =
                   (IF DefinesSetup(nodes) /\ ~CallsSetup(nodes) THEN 1 ELSE 0)
            /\ ~DefinesSetup(nodes) => outcome.counts.unused_setup = 0

\* unused_setup alone: the file has a test with an assert, defines setUp and
\* calls it only as self.setUp()
C20_Witness ==
    /\ SmellsDone
    /\ outcome.counts = [empty_tests |-> 0, no_assert |-> 0, unused_setup |-> 1]
    /\ \E i \in 1..Len(worktree[1].tree.body) :
           worktree[1].tree.body[i] = Expr(Call(Attribute(Name(<<"s", "e", "l", "f">>), <<"s", "e", "t", "U", "p">>), <<>>, <<>>))

----------------------------------------------------------------------------
\* analyze_tests_local. A file that is scanned whole has its text, src, beside
\* its tree.

\* sum(1 for _ in file_handler): the lines of a text opened in text mode, where
\* "\n", "\r" and "\r\n" each end a line and a last line needs no ending
LineCount(src) ==
    LET n == Len(src)
        ends == {i \in 1..n :
                    \/ src[i] = "\n"
                    \/ src[i] = "\r" /\ (i = n \/ src[i + 1] # "\n")}
    IN  Cardinality(ends) + (IF n > 0 /\ src[n] \notin {"\n", "\r"} THEN 1 ELSE 0)

\* filename.startswith("test_") and filename.endswith(".py")
IsLocalTestFile(file) ==
    startswith(basename(file.rel), TEST_) /\ endswith(basename(file.rel), DOT_PY)

\* round(total / n, 1) as the fraction k / 10
Round1(total, n) == Ratio(RoundQuotient(total, n, 10), 10)

\* the loop over test_files: open() and the line count sit in a try whose
\* handler formats a message from the names filepath and e, which the function
\* never binds, so entering the handler raises NameError
RECURSIVE CountLines(_, _)
CountLines(test_files, total_lines) ==
    IF test_files = <<>> THEN [raised |-> "none", total_lines |-> total_lines]
    ELSE IF ErrorOf(Head(test_files)) \in {"OSError", "UnicodeDecodeError"}
    THEN [raised |-> "NameError", total_lines |-> total_lines]
    ELSE CountLines(Tail(test_files), total_lines + LineCount(Head(test_files).src))

analyze_tests_local(files) ==
    LET test_files  == SelectSeq(files, IsLocalTestFile)
        total_files == Len(test_files)
        counted     == CountLines(test_files, 0)
    IN  [raised |-> counted.raised,
         counts |-> [num_test_files |-> total_files,
                     avg_test_file_lines |->
                         IF total_files # 0 THEN Round1(counted.total_lines, total_files)
                         ELSE <<0, 1>>]]

AnalyzeTestsLocal ==
    /\ analyzer' = "analyze_tests_local"
    /\ outcome' = analyze_tests_local(worktree)
    /\ UNCHANGED <<worktree, scan_root, baseVars, urlVars, delayVars, cloneVars>>

----------------------------------------------------------------------------
\* detect_flaky_tests

TIME == <<"t", "i", "m", "e">>
SLEEP == <<"s", "l", "e", "e", "p">>
RANDOM == <<"r", "a", "n", "d", "o", "m">>
RANDINT == <<"r", "a", "n", "d", "i", "n", "t">>
DATETIME == <<"d", "a", "t", "e", "t", "i", "m", "e">>
NOW == <<"n", "o", "w">>

IsAttrCallOn(n, base) ==
    /\ n.kind = "Call" /\ n.func.kind = "Attribute"
    /\ n.func.value.kind = "Name" /\ n.func.value.id = base

IsNameCall(n, ids) == n.kind = "Call" /\ n.func.kind = "Name" /\ n.func.id \in ids

FileFlaky(tree) ==
    LET nodes == walk(tree)
    IN  [time_sleep   |->
             Count([i \in 1..Len(nodes) |->
                       IsAttrCallOn(nodes[i], TIME) /\ nodes[i].func.attr = SLEEP])
             + Count([i \in 1..Len(nodes) |-> IsNameCall(nodes[i], {SLEEP})]),
         random_usage |->
             Count([i \in 1..Len(nodes) |-> IsAttrCallOn(nodes[i], RANDOM)])
             + Count([i \in 1..Len(nodes) |-> IsNameCall(nodes[i], {RANDOM, RANDINT})]),
         datetime_now |->
             Count([i \in 1..Len(nodes) |->
                       IsAttrCallOn(nodes[i], DATETIME) /\ nodes[i].func.attr = NOW])]

NoFlaky == [time_sleep |-> 0, random_usage |-> 0, datetime_now |-> 0]

AddFlaky(a, b) ==
    [time_sleep   |-> a.time_sleep + b.time_sleep,
     random_usage |-> a.random_usage + b.random_usage,
     datetime_now |-> a.datetime_now + b.datetime_now]

\* except Exception: continue
RECURSIVE ScanFlaky(_, _, _)
ScanFlaky(repo, files, counts) ==
    IF files = <<>> THEN [raised |-> "none", counts |-> counts]
    ELSE LET file == Head(files)
         IN  IF ~IsScanned(repo, file) \/ ErrorOf(file) # "none"
             THEN ScanFlaky(repo, Tail(files), counts)
             ELSE ScanFlaky(repo, Tail(files), AddFlaky(counts, FileFlaky(file.tree)))

detect_flaky_tests(repo, files) == ScanFlaky(repo, files, NoFlaky)

DetectFlakyTests ==
    /\ analyzer' = "detect_flaky_tests"
    /\ outcome' = detect_flaky_tests(scan_root, worktree)
    /\ UNCHANGED <<worktree, scan_root, baseVars, urlVars, delayVars, cloneVars>>

----------------------------------------------------------------------------
\* count_functions_tested

\* is_unit_test_file: a .py file that parses and imports unittest or pytest
is_unit_test_file(repo, file) ==
    /\ endswith(FullPath(repo, file), DOT_PY)
    /\ ErrorOf(file) = "none"
    /\ LET nodes == walk(file.tree)
       IN  \E i \in 1..Len(nodes) :
               \/ /\ nodes[i].kind = "Import"
                  /\ \E j \in 1..Len(nodes[i].names) : nodes[i].names[j].name \in frameworks
               \/ nodes[i].kind = "ImportFrom" /\ nodes[i].module \in frameworks

\* the names of the FunctionDef nodes of the production files that parse
prod_funcs(repo, files) ==
    UNION {IF /\ endswith(basename(files[i].rel), DOT_PY)
              /\ ~is_test_file(FullPath(repo, files[i]))
              /\ ErrorOf(files[i]) = "none"
           THEN LET nodes == walk(files[i].tree)
                IN  {nodes[k].name : k \in {x \in 1..Len(nodes) : nodes[x].kind = "FunctionDef"}}
           ELSE {} : i \in 1..Len(files)}

\* fn in src, on the text of the file as open(full).read() returns it
Mentions(src, fn) == contains(src, fn)

count_functions_tested(repo, files) ==
    LET funcs  == prod_funcs(repo, files)
        tested == {fn \in funcs :
                      \E i \in 1..Len(files) :
                          is_unit_test_file(repo, files[i]) /\ Mentions(files[i].src, fn)}
    IN  [raised |-> "none",
         counts |-> [total_functions |-> Cardinality(funcs),
                     tested_functions |-> Cardinality(tested)]]

CountFunctionsTested ==
    /\ analyzer' = "count_functions_tested"
    /\ outcome' = count_functions_tested(scan_root, worktree)
    /\ UNCHANGED <<worktree, scan_root, baseVars, urlVars, delayVars, cloneVars>>

----------------------------------------------------------------------------
\* the six analyzers on trees with files that cannot be read or parsed

\* the texts and the trees ast.parse makes of them
EMPTY_SRC == <<"\n">>
COMPUTE_SRC == <<"d", "e", "f", " ", "c", "o", "m", "p", "u", "t", "e", "(", ")", ":", "\n", " ", " ", " ", " ", "r", "e", "t", "u", "r", "n", " ", "1", "\n", "\n">>
PORT_SRC == <<"d", "e", "f", " ", "p", "o", "r", "t", "(", ")", ":", "\n", " ", " ", " ", " ", "r", "e", "t", "u", "r", "n", " ", "1", "\n", "\n">>
TEST_A_SRC == <<"i", "m", "p", "o", "r", "t", " ", "u", "n", "i", "t", "t", "e", "s", "t", "\n", "d", "e", "f", " ", "t", "e", "s", "t", "_", "a", "(", ")", ":", "\n", " ", " ", " ", " ", "t", "i", "m", "e", ".", "s", "l", "e", "e", "p", "(", "1", ")", "\n", " ", " ", " ", " ", "m", " ", "=", " ", "M", "o", "c", "k", "(", ")", "\n", " ", " ", " ", " ", "a", "s", "s", "e", "r", "t", " ", "c", "o", "m", "p", "u", "t", "e", "(", ")", "\n">>
MALFORMED_SRC == <<"d", "e", "f", " ", "(", "\n">>

SourceModules ==
    {[src |-> EMPTY_SRC, body |-> <<>>],
     [src |-> COMPUTE_SRC,
      body |-> <<FunctionDef(<<"c", "o", "m", "p", "u", "t", "e">>, <<>>, <<Return(Constant)>>)>>],
     [src |-> PORT_SRC,
      body |-> <<FunctionDef(<<"p", "o", "r", "t">>, <<>>, <<Return(Constant)>>)>>],
     [src |-> TEST_A_SRC,
      body |-> <<Import(<<alias(<<"u", "n", "i", "t", "t", "e", "s", "t">>, <<>>)>>),
                 FunctionDef(<<"t", "e", "s", "t", "_", "a">>, <<>>,
                             <<Expr(Call(Attribute(Name(<<"t", "i", "m", "e">>), <<"s", "l", "e", "e", "p">>), <<Constant>>, <<>>)),
                               Assign(<<Name(<<"m">>)>>, Call(Name(<<"M", "o", "c", "k">>), <<>>, <<>>)),
                               AssertStmt(Call(Name(<<"c", "o", "m", "p", "u", "t", "e">>), <<>>, <<>>))>>)>>]}

SourceNames == {<<"t", "e", "s", "t", "s", "/", "t", "e", "s", "t", "_", "a", ".", "p", "y">>, <<"p", "k", "g", "/", "t", "e", "s", "t", "s", "/", "t", "e", "s", "t", "_", "b", ".", "p", "y">>, <<"s", "r", "c", "/", "c", ".", "p", "y">>}

SourceFiles ==
    {[rel |-> rel, state |-> "ok", tree |-> Module(m.body), src |-> m.src] :
        rel \in SourceNames, m \in SourceModules}
    \cup {[rel |-> rel, state |-> "malformed", tree |-> Module(<<>>), src |-> MALFORMED_SRC] :
        rel \in SourceNames}
    \cup {[rel |-> rel, state |-> st, tree |-> Module(<<>>), src |-> <<>>] :
        rel \in SourceNames, st \in {"unreadable", "undecodable"}}

InitScan ==
    /\ scan_root = ScanRoot
    /\ worktree \in SeqsUpTo(SourceFiles, MaxFiles)
    /\ DistinctPaths(worktree)
    /\ analyzer = "none"
    /\ outcome = [raised |-> "none", counts |-> <<>>]
    /\ BaseIdle /\ UrlIdle /\ DelayIdle /\ CloneIdle

NextScan ==
    \/ AnalyzeTestsLocal
    \/ ClassifyTestTypes
    \/ CountTestSmells
    \/ DetectFlakyTests
    \/ DetectTestDoubles
    \/ CountFunctionsTested

SpecScan == InitScan /\ [][NextScan]_vars

\* the files an analyzer can take in: analyze_tests_local only reads, the
\* others read and parse
IsUsable(file) ==
    IF analyzer = "analyze_tests_local"
    THEN file.state \in {"ok", "malformed"}
    ELSE file.state = "ok"

\* what the analyzer that ran returns for the tree without the other files
ResultWithoutBadFiles ==
    LET good == SelectSeq(worktree, IsUsable)
    IN  CASE analyzer = "analyze_tests_local" -> analyze_tests_local(good)
          [] analyzer = "classify_test_types" -> classify_test_types(scan_root, good)
          [] analyzer = "count_test_smells" -> count_test_smells(scan_root, good)
          [] analyzer = "detect_flaky_tests" -> detect_flaky_tests(scan_root, good)
          [] analyzer = "detect_test_doubles" -> detect_test_doubles(scan_root, good)
          [] OTHER -> count_functions_tested(scan_root, good)

\* C14: a file that cannot be read, decoded or parsed never aborts a scan:
\* each of the six analyzers returns, without an exception, what it returns
\* for the same tree without that file.
C14_BadFileNeverAborts ==
    analyzer # "none" =>
        /\ outcome.raised = "none"
        /\ outcome.counts = ResultWithoutBadFiles.counts

----------------------------------------------------------------------------
\* compute_test_delay, one commit of its first loop at a time

WalkFileLists ==
    {<<<<"f", "o", "o", ".", "p", "y">>>>,
     <<<<"l", "i", "b", "/", "f", "o", "o", ".", "p", "y">>, <<"t", "e", "s", "t", "_", "f", "o", "o", ".", "p", "y">>>>,
     <<<<"f", "o", "o", ".", "p", "y">>, <<"t", "e", "s", "t", "_", "f", "o", "o", ".", "p", "y">>>>,
     <<<<"t", "e", "s", "t", "_", "f", "o", "o", ".", "p", "y">>, <<"b", "a", "r", ".", "p", "y">>>>,
     <<<<"t", "e", "s", "t", "s", "/", "h", "e", "l", "p", "e", "r", "s", ".", "p", "y">>, <<"b", "a", "r", "_", "t", "e", "s", "t", ".", "p", "y">>>>,
     <<<<"R", "E", "A", "D", "M", "E", ".", "m", "d">>>>}

WalkCommits == [committed_date : CommitHours, files : WalkFileLists]

InitWalk ==
    /\ git_log \in SeqsUpTo(WalkCommits, MaxCommits)
    /\ local_zone \in Zones
    /\ delay_result = [called |-> FALSE, avg_delay_days |-> <<0, 1>>, delay_count |-> 0]
    /\ first_seen = NoDates
    /\ walked = 0
    /\ BaseIdle /\ UrlIdle /\ ScanIdle /\ CloneIdle

\* one turn of "for commit in commits": the inner loop over commit.stats.files
VisitCommit ==
    /\ ~delay_result.called
    /\ walked < Len(git_log)
    /\ first_seen' = RecordFiles(git_log[walked + 1].files,
                                 fromtimestamp(git_log[walked + 1].committed_date),
                                 first_seen)
    /\ walked' = walked + 1
    /\ UNCHANGED <<git_log, delay_result, local_zone, baseVars, urlVars, scanVars, cloneVars>>

\* the loop is over: the delays are collected and the result returned
ReturnDelays ==
    /\ ~delay_result.called
    /\ walked = Len(git_log)
    /\ delay_result' = DelaysOf(first_seen)
    /\ UNCHANGED <<git_log, first_seen, walked, local_zone, baseVars, urlVars, scanVars, cloneVars>>

NextWalk == VisitCommit \/ ReturnDelays

SpecWalk == InitWalk /\ [][NextWalk]_vars

KeysOf(entries) == {entries[i].path : i \in 1..Len(entries)}

\* the paths of the commits visited so far
WalkedPaths ==
    UNION {{git_log[i].files[j] : j \in 1..Len(git_log[i].files)} : i \in 1..walked}

\* every entry of the dict holds the date of the first commit with its path
HoldsFirstDates(entries) ==
    /\ \A i \in 1..Len(entries) :
           /\ entries[i].path \in WalkedPaths
           /\ entries[i].date = FirstDate(entries[i].path)
    /\ \A i, j \in 1..Len(entries) : entries[i].path = entries[j].path => i = j

\* the entries the dict has are the entries it keeps
KeepsEntries(before, after) ==
    /\ Len(after) >= Len(before)
    /\ \A i \in 1..Len(before) : after[i] = before[i]

\* C21: walking the commits oldest to newest, the date recorded for a
\* production path and for a test path is the date of the first commit whose
\* changed files contain the path; no later commit changes a recorded date;
\* and no path is recorded in both maps.
C21_FirstSeenDates ==
    /\ [](/\ HoldsFirstDates(first_seen.prod_dates)
          /\ HoldsFirstDates(first_seen.test_dates)
          /\ KeysOf(first_seen.prod_dates) \cup KeysOf(first_seen.test_dates) =
                 {p \in WalkedPaths : endswith(p, DOT_PY) \/ is_test_file(p)}
          /\ KeysOf(first_seen.prod_dates) \cap KeysOf(first_seen.test_dates) = {})
    /\ [][/\ KeepsEntries(first_seen.prod_dates, first_seen'.prod_dates)
          /\ KeepsEntries(first_seen.test_dates, first_seen'.test_dates)]_vars

\* a path changed by both commits, on different dates, keeps the first date
C21_Witness ==
    /\ delay_result.called
    /\ Len(git_log) = 2
    /\ git_log[1].committed_date # git_log[2].committed_date
    /\ \E i \in 1..Len(first_seen.prod_dates) :
           /\ first_seen.prod_dates[i].path \in
                  {git_log[1].files[j] : j \in 1..Len(git_log[1].files)}
                  \cap {git_log[2].files[j] : j \in 1..Len(git_log[2].files)}
           /\ first_seen.prod_dates[i].date = fromtimestamp(git_log[1].committed_date)
           /\ first_seen.prod_dates[i].date # fromtimestamp(git_log[2].committed_date)
    /\ first_seen.test_dates # <<>>

----------------------------------------------------------------------------
\* the shape of what compute_test_delay returns

\* the test paths of the log
TestPaths == {t \in LogPaths : is_test_file(t)}

\* the tests whose first matching production path, in first-seen order, is
\* not younger than the test by a whole day or part of one
FirstMatchCounts ==
    {t \in TestPaths :
        /\ Candidates(t) # {}
        /\ (FirstDate(t) - FirstDate(Partner(t))) \div 24 >= 0}

\* C22: for every commit history, the empty one included, avg_delay_days is
\* None exactly when delay_count is 0 and is a non-negative number otherwise;
\* a test path contributes at most one delay, the one of the first production
\* path in first-seen order with the matching base name, also when that delay
\* is negative and a later match would not be; so delay_count is at most the
\* number of distinct test paths.
C22_DelayShape ==
    DelayDone =>
        /\ (delay_result.avg_delay_days = NoAvg) <=> (delay_result.delay_count = 0)
        /\ delay_result.delay_count > 0 =>
               /\ delay_result.avg_delay_days[1] >= 0
               /\ delay_result.avg_delay_days[2] > 0
        /\ delay_result.delay_count = Cardinality(FirstMatchCounts)
        /\ delay_result.delay_count <= Cardinality(TestPaths)

\* the first match is younger than the test and a later match is not: the test
\* contributes nothing
C22_Witness ==
    /\ DelayDone
    /\ \E t \in TestPaths :
           /\ Candidates(t) # {}
           /\ FirstDate(t) < FirstDate(Partner(t))
           /\ \E q \in Candidates(t) : q # Partner(t) /\ FirstDate(t) >= FirstDate(q)
    /\ delay_result.delay_count = 0
    /\ delay_result.avg_delay_days = NoAvg

----------------------------------------------------------------------------
\* clone_repo, cleanup_repo and the try/finally of analyze_tests_github

\* the statements of the try block, in order
TrySteps ==
    <<"analyze_tests_local", "commit_diff_stats", "file_count_stats",
      "fetch_prs_and_issues", "pr_diff_stats", "count_test_smells",
      "classify_test_types", "count_functions_tested", "compute_test_delay",
      "detect_flaky_tests", "detect_test_doubles", "count_prs_with_test_changes",
      "aggregate_stats(raw_commits)", "aggregate_stats(raw_pr_stats)",
      "aggregate_snapshots", "format_and_return">>

CloneSteps == {"mkdtemp", "clone_from", "checkout"}

\* GitCommandError and ValueError derive from Exception; KeyboardInterrupt
\* derives from BaseException only
Errors == {"GitCommandError", "ValueError", "KeyboardInterrupt"}
IsException(error) == error \in {"GitCommandError", "ValueError"}

NoFault == [at |-> "nowhere", error |-> "none"]
Faults ==
    {NoFault} \cup [at : CloneSteps \cup {TrySteps[k] : k \in 1..Len(TrySteps)},
                    error : Errors]

\* what the statement called step raises
ErrorAt(step) == IF clone_env.fault.at = step THEN clone_env.fault.error ELSE "none"

\* shutil.rmtree(path, ignore_errors=True): the tree is removed unless an entry
\* cannot be deleted, and then the error is dropped and the tree stays
rmtree(on_disk) == IF clone_env.removable THEN FALSE ELSE on_disk

InitClone ==
    /\ clone_env \in [branch_exists : BOOLEAN, removable : BOOLEAN, fault : Faults]
    /\ clone_pc = "idle" /\ tmp_dir = FALSE /\ try_step = 0
    /\ cleanup_calls = 0 /\ propagated = "none"
    /\ BaseIdle /\ UrlIdle /\ DelayIdle /\ ScanIdle

\* tmp_dir = tempfile.mkdtemp(), before the try of clone_repo
Mkdtemp ==
    /\ clone_pc = "idle"
    /\ IF ErrorAt("mkdtemp") # "none"
       THEN /\ clone_pc' = "exited"
            /\ propagated' = ErrorAt("mkdtemp")
            /\ UNCHANGED tmp_dir
       ELSE /\ clone_pc' = "clone_from"
            /\ tmp_dir' = TRUE
            /\ UNCHANGED propagated
    /\ UNCHANGED <<clone_env, try_step, cleanup_calls, baseVars, urlVars, delayVars, scanVars>>

\* an exception inside the try of clone_repo: except Exception removes the
\* directory and re-raises; any other exception passes the handler by
CloneFails(error) ==
    /\ clone_pc' = "exited"
    /\ propagated' = error
    /\ tmp_dir' = IF IsException(error) THEN rmtree(tmp_dir) ELSE tmp_dir

\* repo = Repo.clone_from(github_url, tmp_dir, ...)
CloneFrom ==
    /\ clone_pc = "clone_from"
    /\ IF ErrorAt("clone_from") # "none"
       THEN /\ CloneFails(ErrorAt("clone_from"))
            /\ UNCHANGED try_step
       ELSE /\ clone_pc' = "checkout"
            /\ UNCHANGED <<tmp_dir, propagated, try_step>>
    /\ UNCHANGED <<clone_env, cleanup_calls, baseVars, urlVars, delayVars, scanVars>>

\* repo.git.checkout(branch) raises GitCommandError when the branch does not exist
CheckoutError ==
    IF ErrorAt("checkout") # "none" THEN ErrorAt("checkout")
    ELSE IF ~clone_env.branch_exists THEN "GitCommandError"
    ELSE "none"

\* try: repo.git.checkout(branch) except GitCommandError: pass; return tmp_dir;
\* and the caller enters its try block
Checkout ==
    /\ clone_pc = "checkout"
    /\ IF CheckoutError \in {"none", "GitCommandError"}
       THEN /\ clone_pc' = "try"
            /\ try_step' = 1
            /\ UNCHANGED <<tmp_dir, propagated>>
       ELSE /\ CloneFails(CheckoutError)
            /\ UNCHANGED try_step
    /\ UNCHANGED <<clone_env, cleanup_calls, baseVars, urlVars, delayVars, scanVars>>

\* finally: cleanup_repo(path)
cleanup_repo ==
    /\ cleanup_calls' = cleanup_calls + 1
    /\ tmp_dir' = rmtree(tmp_dir)

\* one statement of the try block; the finally clause runs when the statement
\* raises and when it is the return statement
TryStep ==
    /\ clone_pc = "try"
    /\ IF ErrorAt(TrySteps[try_step]) # "none"
       THEN /\ cleanup_repo
            /\ clone_pc' = "exited"
            /\ propagated' = ErrorAt(TrySteps[try_step])
            /\ UNCHANGED try_step
       ELSE IF try_step = Len(TrySteps)
       THEN /\ cleanup_repo
            /\ clone_pc' = "exited"
            /\ UNCHANGED <<propagated, try_step>>
       ELSE /\ try_step' = try_step + 1
            /\ UNCHANGED <<clone_pc, tmp_dir, cleanup_calls, propagated>>
    /\ UNCHANGED <<clone_env, baseVars, urlVars, delayVars, scanVars>>

NextClone == Mkdtemp \/ CloneFrom \/ Checkout \/ TryStep

SpecClone == InitClone /\ [][NextClone]_vars

\* control is back with the caller of analyze_tests_github
Exited == clone_pc = "exited"

\* clone_repo returned: the try block was entered
CloneReturned == try_step >= 1

\* the one error the code swallows: GitCommandError from the checkout
Swallowed ==
    clone_env.fault.at = "checkout" /\ clone_env.fault.error = "GitCommandError"

\* once clone_repo has returned, cleanup_repo is called exactly once before
\* control returns, and never otherwise; a failed clone re-raises its
\* exception; a failed checkout of a branch fails nothing
CleanupOncePerClone ==
    /\ cleanup_calls = (IF Exited /\ CloneReturned THEN 1 ELSE 0)
    /\ Exited => propagated = (IF Swallowed THEN "none" ELSE clone_env.fault.error)
    /\ Exited /\ ~CloneReturned => propagated # "none"

\* C23: on every exit path of analyze_tests_github after clone_repo has
\* returned, cleanup_repo is called exactly once before control returns; a
\* failing clone_repo removes the directory it made and re-raises; a checkout
\* that fails because the branch does not exist is swallowed; and no temporary
\* directory remains after any outcome.
C23_NoTempDirRemains ==
    /\ CleanupOncePerClone
    /\ Exited => ~tmp_dir
----------------------------------------------------------------------------
\* analyze_tests_github, the whole call: clone_repo, the statements of the try
\* block in the order of TrySteps, and cleanup_repo in the finally clause.
\* The clone is the directory clone_path with the working tree files; log is
\* its history as compute_test_delay reads it and history as commit_diff_stats
\* and file_count_stats read it; hub_prs and hub_issues are what GitHub holds.

\* clone_repo(github_url, branch): what it raises, and whether the directory
\* of tempfile.mkdtemp() is on disk when it returns or raises
clone_repo ==
    IF ErrorAt("mkdtemp") # "none"
    THEN [raised |-> ErrorAt("mkdtemp"), tmp_dir |-> FALSE]
    ELSE IF ErrorAt("clone_from") # "none"
    THEN [raised  |-> ErrorAt("clone_from"),
          tmp_dir |-> IF IsException(ErrorAt("clone_from")) THEN rmtree(TRUE) ELSE TRUE]
    ELSE IF CheckoutError \notin {"none", "GitCommandError"}
    THEN [raised  |-> CheckoutError,
          tmp_dir |-> IF IsException(CheckoutError) THEN rmtree(TRUE) ELSE TRUE]
    ELSE [raised |-> "none", tmp_dir |-> TRUE]

\* fetch_prs_and_issues(github_url, token): parse_github_url, then the pull
\* requests and the issues GitHub holds
fetch_prs_and_issues(url, hub_prs, hub_issues) ==
    IF parse_github_url(url).raised
    THEN [raised |-> "ValueError", prs |-> <<>>, issues |-> <<>>]
    ELSE [raised |-> "none", prs |-> hub_prs, issues |-> hub_issues]

\* the exception of the code of each statement of the try block, in the
\* order of TrySteps
TryErrors(url, gran, clone_path, files, history, hub_prs, hub_issues) ==
    <<analyze_tests_local(files).raised,
      "none",
      "none",
      fetch_prs_and_issues(url, hub_prs, hub_issues).raised,
      "none",
      count_test_smells(clone_path, files).raised,
      classify_test_types(clone_path, files).raised,
      count_functions_tested(clone_path, files).raised,
      "none",
      detect_flaky_tests(clone_path, files).raised,
      detect_test_doubles(clone_path, files).raised,
      "none",
      IF AggregateStats(gran, commit_diff_stats(history)).raised THEN "ValueError" ELSE "none",
      IF AggregateStats(gran, pr_diff_stats(hub_prs)).raised THEN "ValueError" ELSE "none",
      "none",
      "none">>

\* what statement k of the try block raises: the fault it meets, or else the
\* exception of its code; fetch_prs_and_issues parses the URL before it meets
\* a fault of GitHub
RaisedAt(errors, k) ==
    IF TrySteps[k] = "fetch_prs_and_issues" /\ errors[k] # "none" THEN errors[k]
    ELSE IF ErrorAt(TrySteps[k]) # "none" THEN ErrorAt(TrySteps[k])
    ELSE errors[k]

\* the first statement of the try block that raises (0 when none does)
FirstFailure(errors) ==
    IF \E k \in 1..Len(TrySteps) : RaisedAt(errors, k) # "none"
    THEN CHOOSE k \in 1..Len(TrySteps) :
             /\ RaisedAt(errors, k) # "none"
             /\ \A j \in 1..(k - 1) : RaisedAt(errors, j) = "none"
    ELSE 0

\* the dict of the return statement
ResultDict(gran, clone_path, files, log, history, pr_list, issue_list) ==
    [num_test_files        |-> analyze_tests_local(files).counts.num_test_files,
     avg_test_file_lines   |-> analyze_tests_local(files).counts.avg_test_file_lines,
     test_doubles          |-> detect_test_doubles(clone_path, files).counts,
     test_types            |-> classify_test_types(clone_path, files).counts,
     total_prod_functions  |-> count_functions_tested(clone_path, files).counts.total_functions,
     tested_functions      |-> count_functions_tested(clone_path, files).counts.tested_functions,
     avg_test_delay_days   |-> compute_test_delay(log).avg_delay_days,
     test_delay_count      |-> compute_test_delay(log).delay_count,
     flaky_tests           |-> detect_flaky_tests(clone_path, files).counts,
     total_commits         |->
         Len(FormatSeries(AggregateStats(gran, commit_diff_stats(history)).value)),
     total_prs             |-> Len(pr_list),
     test_smells           |-> count_test_smells(clone_path, files).counts,
     prs_with_test_changes |-> count_prs_with_test_changes(pr_list),
     total_issues          |-> Len(issue_list),
     commit_stats          |->
         FormatSeries(AggregateStats(gran, commit_diff_stats(history)).value),
     pr_stats              |->
         FormatSeries(AggregateStats(gran, pr_diff_stats(pr_list)).value),
     file_stats            |->
         FormatFiles(AggregateSnapshots(gran, file_count_stats(history)))]

\* the try block left at statement failed by an exception, or by the return
\* statement (failed = 0); the finally clause has called cleanup_repo(path)
TryFinally(errors, failed, result) ==
    [raised        |-> IF failed = 0 THEN "none" ELSE RaisedAt(errors, failed),
     counts        |-> IF failed = 0 THEN result ELSE <<>>,
     try_step      |-> IF failed = 0 THEN Len(TrySteps) ELSE failed,
     tmp_dir       |-> rmtree(TRUE),
     cleanup_calls |-> 1]

TryBlock(errors, result) == TryFinally(errors, FirstFailure(errors), result)

\* how the call ends: the exception that leaves it ("none" when it returns),
\* the dict it returns, the statement of the try block it reached, whether the
\* directory of the clone is still on disk, and the calls of cleanup_repo
analyze_tests_github(url, gran, clone_path, files, log, history, hub_prs, hub_issues) ==
    IF clone_repo.raised # "none"
    THEN [raised        |-> clone_repo.raised,
          counts        |-> <<>>,
          try_step      |-> 0,
          tmp_dir       |-> clone_repo.tmp_dir,
          cleanup_calls |-> 0]
    ELSE TryBlock(TryErrors(url, gran, clone_path, files, history, hub_prs, hub_issues),
                  ResultDict(gran, clone_path, files, log, history, hub_prs, hub_issues))

\* statement k of the try block has run to its end
Completed(run, k) == run.try_step > k \/ (run.try_step = k /\ run.raised = "none")

\* the state the call leaves: what it returned or raised, the directory of
\* the clone, and the values its statements assigned before it ended
LeaveWith(run) ==
    /\ analyzer' = "analyze_tests_github"
    /\ outcome' = [raised |-> run.raised, counts |-> run.counts]
    /\ clone_pc' = "exited"
    /\ propagated' = run.raised
    /\ tmp_dir' = run.tmp_dir
    /\ try_step' = run.try_step
    /\ cleanup_calls' = cleanup_calls + run.cleanup_calls
    /\ raw_commits' = IF Completed(run, 2) THEN commit_diff_stats(commits) ELSE raw_commits
    /\ raw_file_stats' = IF Completed(run, 3) THEN file_count_stats(commits) ELSE raw_file_stats
    /\ parsed' = IF run.try_step >= 4 THEN parse_github_url(github_url) ELSE parsed
    /\ raw_pr_stats' = IF Completed(run, 5) THEN pr_diff_stats(prs) ELSE raw_pr_stats
    /\ first_seen' = IF Completed(run, 9) THEN RecordCommits(git_log, NoDates) ELSE first_seen
    /\ walked' = IF Completed(run, 9) THEN Len(git_log) ELSE walked
    /\ delay_result' = IF Completed(run, 9) THEN compute_test_delay(git_log) ELSE delay_result
    /\ file_snapshots' = IF Completed(run, 15)
                         THEN AggregateSnapshots(report_granularity, file_count_stats(commits))
                         ELSE file_snapshots
    /\ granularity' = IF Completed(run, 15) THEN report_granularity ELSE granularity
    /\ commit_stats' = IF Completed(run, 16) THEN run.counts.commit_stats ELSE commit_stats
    /\ pr_stats' = IF Completed(run, 16) THEN run.counts.pr_stats ELSE pr_stats
    /\ pc' = IF run.raised = "none" THEN "returned" ELSE "raised"

AnalyzeTestsGithub ==
    /\ clone_pc = "idle"
    /\ LeaveWith(analyze_tests_github(github_url, report_granularity, scan_root, worktree,
                                      git_log, commits, prs, issues))
    /\ UNCHANGED <<github_url, commits, prs, issues, report_granularity, git_log, local_zone,
                   worktree, scan_root, clone_env, addVars, roleVars>>

----------------------------------------------------------------------------
\* analyze_tests_github on a repository of two commits: the first adds foo.py,
\* the second adds its test

\* tempfile.mkdtemp() under the default /tmp and under TMPDIR=/var/tests
CloneDirs == {ScanRoot, <<"/", "v", "a", "r", "/", "t", "e", "s", "t", "s", "/", "t", "m", "p", "y">>}

FOO_SRC == <<"d", "e", "f", " ", "c", "o", "m", "p", "u", "t", "e", "(", ")", ":", "\n", " ", " ", " ", " ", "r", "e", "t", "u", "r", "n", " ", "1", "\n">>

FooBody == <<FunctionDef(<<"c", "o", "m", "p", "u", "t", "e">>, <<>>, <<Return(Constant)>>)>>

TestFooFunc ==
    FunctionDef(<<"t", "e", "s", "t", "_", "f", "o", "o">>, <<>>, <<AssertStmt(Call(Name(<<"c", "o", "m", "p", "u", "t", "e">>), <<>>, <<>>))>>)

\* each imports a framework, defines one test function with an assertion, no
\* setup or teardown, and creates no test double
TestFooModules ==
    {[src  |-> <<"i", "m", "p", "o", "r", "t", " ", "u", "n", "i", "t", "t", "e", "s", "t", "\n", "\n", "d", "e", "f", " ", "t", "e", "s", "t", "_", "f", "o", "o", "(", ")", ":", "\n", " ", " ", " ", " ", "a", "s", "s", "e", "r", "t", " ", "c", "o", "m", "p", "u", "t", "e", "(", ")", "\n">>,
      body |-> <<Import(<<alias(<<"u", "n", "i", "t", "t", "e", "s", "t">>, <<>>)>>), TestFooFunc>>],
     [src  |-> <<"i", "m", "p", "o", "r", "t", " ", "p", "y", "t", "e", "s", "t", "\n", "\n", "d", "e", "f", " ", "t", "e", "s", "t", "_", "f", "o", "o", "(", ")", ":", "\n", " ", " ", " ", " ", "a", "s", "s", "e", "r", "t", " ", "c", "o", "m", "p", "u", "t", "e", "(", ")", "\n">>,
      body |-> <<Import(<<alias(<<"p", "y", "t", "e", "s", "t">>, <<>>)>>), TestFooFunc>>],
     [src  |-> <<"i", "m", "p", "o", "r", "t", " ", "p", "y", "t", "e", "s", "t", "\n", "i", "m", "p", "o", "r", "t", " ", "r", "e", "q", "u", "e", "s", "t", "s", "\n", "\n", "d", "e", "f", " ", "t", "e", "s", "t", "_", "f", "o", "o", "(", ")", ":", "\n", " ", " ", " ", " ", "a", "s", "s", "e", "r", "t", " ", "c", "o", "m", "p", "u", "t", "e", "(", ")", "\n">>,
      body |-> <<Import(<<alias(<<"p", "y", "t", "e", "s", "t">>, <<>>)>>), Import(<<alias(<<"r", "e", "q", "u", "e", "s", "t", "s">>, <<>>)>>), TestFooFunc>>],
     [src  |-> <<"i", "m", "p", "o", "r", "t", " ", "u", "n", "i", "t", "t", "e", "s", "t", "\n", "c", "l", "a", "s", "s", " ", "T", "e", "s", "t", "F", "o", "o", ":", "\n", " ", " ", " ", " ", "d", "e", "f", " ", "t", "e", "s", "t", "_", "f", "o", "o", "(", "s", "e", "l", "f", ")", ":", "\n", " ", " ", " ", " ", " ", " ", " ", " ", "s", "e", "l", "f", ".", "a", "s", "s", "e", "r", "t", "E", "q", "u", "a", "l", "(", "c", "o", "m", "p", "u", "t", "e", "(", ")", ",", " ", "1", ")", "\n">>,
      body |-> <<Import(<<alias(<<"u", "n", "i", "t", "t", "e", "s", "t">>, <<>>)>>),
                 ClassDef(<<"T", "e", "s", "t", "F", "o", "o">>,
                          <<FunctionDef(<<"t", "e", "s", "t", "_", "f", "o", "o">>, <<<<"s", "e", "l", "f">>>>,
                                        <<Expr(Call(Attribute(Name(<<"s", "e", "l", "f">>), <<"a", "s", "s", "e", "r", "t", "E", "q", "u", "a", "l">>), <<Call(Name(<<"c", "o", "m", "p", "u", "t", "e">>), <<>>, <<>>), Constant>>, <<>>))>>)>>)>>]}

TestFooPaths == {TEST_FOO_PY, <<"t", "e", "s", "t", "s", "/", "t", "e", "s", "t", "_", "f", "o", "o", ".", "p", "y">>, <<"p", "k", "g", "/", "f", "o", "o", "_", "t", "e", "s", "t", ".", "p", "y">>}

\* the months of 2021 and their lengths in days
RECURSIVE MonthAndDay(_, _)
MonthAndDay(month, rest) ==
    LET length == IF month = 2 THEN 28 ELSE IF month \in {4, 6, 9, 11} THEN 30 ELSE 31
    IN  IF rest >= length THEN MonthAndDay(month + 1, rest - length)
        ELSE [month |-> month, day |-> rest + 1]

\* datetime.utcfromtimestamp(commit.committed_date), for the hours of 2021
\* (hour 0 is 2021-01-01 00:00 UTC)
utcfromtimestamp(timestamp) ==
    [year |-> 2021,
     month |-> MonthAndDay(1, timestamp \div 24).month,
     day |-> MonthAndDay(1, timestamp \div 24).day,
     hour |-> timestamp % 24, minute |-> 0, second |-> 0, microsecond |-> 0]

\* a commit that adds the file at rel with the text src to the tree before
\* it, as iter_commits yields it to commit_diff_stats and file_count_stats
Adds(timestamp, rel, src, before) ==
    [date  |-> utcfromtimestamp(timestamp),
     files |-> [p \in {rel} |-> [insertions |-> LineCount(src), deletions |-> 0]],
     tree  |-> before \cup {rel}]

REPO_URL == HTTPS_GITHUB \o <<"o">> \o SLASH \o <<"r", "e", "p", "o">>

\* the URL of the repository, and a URL with no repository name
EndToEndUrls == {REPO_URL, HTTPS_GITHUB \o <<"o">>}

\* no fault, a clone that fails, a history git cannot read, and an interrupt
\* while GitHub is asked for the pull requests or for the files of one
EndToEndFaults ==
    {NoFault,
     [at |-> "clone_from", error |-> "GitCommandError"],
     [at |-> "commit_diff_stats", error |-> "GitCommandError"],
     [at |-> "fetch_prs_and_issues", error |-> "KeyboardInterrupt"],
     [at |-> "count_prs_with_test_changes", error |-> "KeyboardInterrupt"]}

\* what GitHub holds: nothing, or one merged pull request that changed
\* test_foo.py, listed among the issues beside one issue
TEST_FOO_PR ==
    [closed_at |-> MonthStart(2021, 1), merge_commit_sha |-> "sha",
     files |-> <<[filename |-> TEST_FOO_PY, additions |-> 4, deletions |-> 0]>>]

Hubs ==
    {[prs |-> <<>>, issues |-> <<>>],
     [prs |-> <<TEST_FOO_PR>>, issues |-> <<"pull request", "issue">>]}

EndToEndHours == {0, 240}

InitEndToEnd ==
    /\ scan_root \in CloneDirs
    /\ github_url \in EndToEndUrls
    /\ \E hub \in Hubs : prs = hub.prs /\ issues = hub.issues
    /\ report_granularity \in {"monthly", "yearly"}
    /\ clone_env \in [branch_exists : BOOLEAN, removable : BOOLEAN, fault : EndToEndFaults]
    /\ \E rel \in TestFooPaths, m \in TestFooModules, h1, h2 \in EndToEndHours :
           /\ git_log = <<[committed_date |-> h1, files |-> <<FOO_PY>>],
                          [committed_date |-> h2, files |-> <<rel>>]>>
           /\ commits = <<Adds(h2, rel, m.src, {FOO_PY}), Adds(h1, FOO_PY, FOO_SRC, {})>>
           /\ worktree = <<[rel |-> FOO_PY, state |-> "ok", tree |-> Module(FooBody),
                            src |-> FOO_SRC],
                           [rel |-> rel, state |-> "ok", tree |-> Module(m.body),
                            src |-> m.src]>>
    /\ delay_result = [called |-> FALSE, avg_delay_days |-> <<0, 1>>, delay_count |-> 0]
    /\ first_seen = [prod_dates |-> <<>>, test_dates |-> <<>>]
    /\ walked = 0
    /\ local_zone \in Zones
    /\ analyzer = "none"
    /\ outcome = [raised |-> "none", counts |-> <<>>]
    /\ parsed = [called |-> FALSE, raised |-> FALSE, owner |-> <<>>, repo_name |-> <<>>]
    /\ raw_commits = <<>> /\ raw_pr_stats = <<>>
    /\ commit_stats = <<>> /\ pr_stats = <<>> /\ pc = "idle"
    /\ clone_pc = "idle" /\ tmp_dir = FALSE /\ try_step = 0
    /\ cleanup_calls = 0 /\ propagated = "none"
    /\ SnapIdle /\ AddIdle /\ RoleIdle

NextEndToEnd == AnalyzeTestsGithub

SpecEndToEnd == InitEndToEnd /\ [][NextEndToEnd]_vars

\* the call met no fault and the URL names a repository
RanUndisturbed ==
    /\ analyzer = "analyze_tests_github"
    /\ clone_env.fault = NoFault
    /\ github_url = REPO_URL

\* C12: commit 1 adds foo.py, commit 2 adds test_foo.py at the repository
\* root, with a framework import, one test function with an assert, no setup
\* or teardown, no mocks: the result has a delay count of 1, the three smell
\* counters at 0, test_types[unit] = 1 and mocks = 0.
C12_TwoCommitEndToEnd ==
    (/\ RanUndisturbed
     /\ worktree[2].rel = TEST_FOO_PY
     /\ git_log[1].committed_date <= git_log[2].committed_date) =>
        /\ outcome.raised = "none"
        /\ outcome.counts.test_delay_count = 1
        /\ outcome.counts.test_smells =
               [empty_tests |-> 0, no_assert |-> 0, unused_setup |-> 0]
        /\ outcome.counts.test_types.unit = 1
        /\ outcome.counts.test_doubles.mocks = 0

====
